---- MODULE Spec2Model ----
(***************************************************************************)
(* A model of the sk-pkg/redis Manager: a pooled client of a key-value     *)
(* store.  Callers run Manager operations; each operation acquires a      *)
(* connection from the Manager's pool, issues its store command(s) with   *)
(* prefixed keys, decodes the reply and releases the connection.          *)
(*                                                                         *)
(* The pool (redigo's redis.Pool) and the store (the server's SET, GET,   *)
(* DEL, EXISTS, TTL) are the collaborators the Manager is written         *)
(* against; they are modelled as far as the Manager's code relies on      *)
(* them, at the places where the code configures or calls them.           *)
(***************************************************************************)
EXTENDS Integers, Sequences, FiniteSets, TLC

(***************************************************************************)
(* Bounds of the model.                                                    *)
(***************************************************************************)
NumCallers == 2
MaxTtl == 2
ScanSlots == 2
MaxCount == 2
MaxIdleAge == 61

(***************************************************************************)
(* Program constants (the defaults of New).                               *)
(***************************************************************************)
DefaultMaxIdle == 30
DefaultMaxActive == 100
DefaultIdleTimeout == 30
DefaultDB == 0
ScanCount == 100
ProbeThreshold == 60
DefaultNetwork == "tcp"

Procs == 1..NumCallers
Mgrs == {"A", "B"}
ConnIds == 1..(NumCallers + 1)

Addr == "127.0.0.1:6379"
BadAddr == "invalid:address"

VARIABLES
    mgr,        \* mgr[m]: the Manager m (its Prefix) and its pool's configuration
    pool,       \* pool[m]: the pool's leased connections, its idle ones (the one used
                \* last first) and, for each idle one, the seconds it has been idle
    store,      \* the store: full key -> [val, ttl]; ttl = -1: no expiry
    pc,         \* pc[p]: where caller p is in its current operation
    op,         \* op[p]: the operation caller p is running, with its arguments
    conn,       \* conn[p]: the connection handle of p's current operation
    loc,        \* loc[p]: the operation's local variables (reply, err, ...)
    sess,       \* sess[p]: the pub/sub session p holds
    ret,        \* the result of the operation that has just returned
    sent,       \* the command that has just been sent to the store
    lastWrite,  \* the last write the store executed (or the last expiry)
    returned    \* the results of the calls of Incr that have returned, in order

vars == <<mgr, pool, store, pc, op, conn, loc, sess, ret, sent, lastWrite, returned>>

(***************************************************************************)
(* Options and New.                                                        *)
(***************************************************************************)
WithAddress(address) == [f |-> "address", s |-> address, n |-> 0]
WithNetwork(network) == [f |-> "network", s |-> network, n |-> 0]
WithPassword(password) == [f |-> "password", s |-> password, n |-> 0]
WithPrefix(prefix) == [f |-> "prefix", s |-> prefix, n |-> 0]
WithMaxActive(maxActive) == [f |-> "maxActive", s |-> "", n |-> maxActive]
WithDB(db) == [f |-> "db", s |-> "", n |-> db]
WithMaxIdle(maxIdle) == [f |-> "maxIdle", s |-> "", n |-> maxIdle]
WithIdleTimeout(idleTimeout) == [f |-> "idleTimeout", s |-> "", n |-> idleTimeout]

DefaultOption ==
    [network |-> DefaultNetwork, address |-> "", password |-> "", prefix |-> "",
     maxIdle |-> DefaultMaxIdle, maxActive |-> DefaultMaxActive,
     db |-> DefaultDB, idleTimeout |-> DefaultIdleTimeout]

\* An option function writes one field of the option struct.
ApplyOptionCoupled(o, f) == [o EXCEPT !.password = f.s, !.maxActive = f.n]
ApplyOption(o, f) ==
    CASE f.f = "address" -> [o EXCEPT !.address = f.s]
      [] f.f = "network" -> [o EXCEPT !.network = f.s]
      [] f.f = "password" -> [o EXCEPT !.password = f.s]
      [] f.f = "prefix" -> [o EXCEPT !.prefix = f.s \o ":"]
      [] f.f = "maxActive" -> [o EXCEPT !.maxActive = f.n]
      [] f.f = "db" -> [o EXCEPT !.db = f.n]
      [] f.f = "maxIdle" -> [o EXCEPT !.maxIdle = f.n]
      [] f.f = "idleTimeout" -> [o EXCEPT !.idleTimeout = f.n]

RECURSIVE ApplyOptions(_, _)
ApplyOptions(o, fs) ==
    IF fs = <<>> THEN o ELSE ApplyOptions(ApplyOption(o, Head(fs)), Tail(fs))

\* The pool's Wait field: New sets it to true, whatever the options are.
PoolNoWait(opt) == FALSE
PoolWait(opt) == TRUE

\* The Manager and the pool New builds: st is "new" until New has returned.
NewManager(opts) ==
    LET opt == ApplyOptions(DefaultOption, opts)
    IN  [st |-> "new", Prefix |-> opt.prefix, address |-> opt.address,
         network |-> opt.network, password |-> opt.password, db |-> opt.db,
         MaxIdle |-> opt.maxIdle, MaxActive |-> opt.maxActive,
         IdleTimeout |-> opt.idleTimeout, Wait |-> PoolWait(opt)]

NoManager ==
    [st |-> "none", Prefix |-> "", address |-> "", network |-> "", password |-> "",
     db |-> 0, MaxIdle |-> 0, MaxActive |-> 0,
     IdleTimeout |-> 0, Wait |-> FALSE]

keyOnly(m, key) == key
keyThenPrefix(m, key) == key \o mgr[m].Prefix
prefixKey(m, key) == mgr[m].Prefix \o key

(***************************************************************************)
(* The store's commands.  A command is [name, keys, val, ex, nx]: its key  *)
(* arguments, its value (for SCAN its MATCH pattern), its EX seconds (for *)
(* SCAN its cursor) and its NX flag.  A reply is [t, n, s, a] with t one  *)
(* of status, int, bulk, nil, err, array (n the cursor, a the key names). *)
(***************************************************************************)
Command(name, keys, val, ex, nx) ==
    [name |-> name, keys |-> keys, val |-> val, ex |-> ex, nx |-> nx, count |-> 0]
NoCommand == Command("", <<>>, "", 0, FALSE)

Status(s) == [t |-> "status", n |-> 0, s |-> s, a |-> <<>>]
IntReply(n) == [t |-> "int", n |-> n, s |-> "", a |-> <<>>]
Bulk(s) == [t |-> "bulk", n |-> 0, s |-> s, a |-> <<>>]
NilReply == [t |-> "nil", n |-> 0, s |-> "", a |-> <<>>]
ErrReply(e) == [t |-> "err", n |-> 0, s |-> e, a |-> <<>>]

\* strconv's decimal text of an integer, and its parse of one.
Digits == <<"0", "1", "2", "3", "4", "5", "6", "7", "8", "9">>
RECURSIVE Itoa(_)
Itoa(n) ==
    IF n < 0 THEN "-" \o Itoa(-n)
    ELSE IF n < 10 THEN Digits[n + 1]
    ELSE Itoa(n \div 10) \o Digits[(n % 10) + 1]

RECURSIVE Atoi(_)
Atoi(s) ==
    LET last == SubSeq(s, Len(s), Len(s))
        init == SubSeq(s, 1, Len(s) - 1)
        rest == SubSeq(s, 2, Len(s))
        fail == [ok |-> FALSE, n |-> 0]
    IN  IF s = "" THEN fail
        ELSE IF SubSeq(s, 1, 1) = "-"
        THEN IF rest = "" \/ SubSeq(rest, 1, 1) = "-" THEN fail
             ELSE [ok |-> Atoi(rest).ok, n |-> -Atoi(rest).n]
        ELSE IF \A i \in 1..10 : Digits[i] # last THEN fail
        ELSE IF init = "" THEN [ok |-> TRUE, n |-> (CHOOSE i \in 1..10 : Digits[i] = last) - 1]
        ELSE [ok |-> Atoi(init).ok,
              n |-> Atoi(init).n * 10 + (CHOOSE i \in 1..10 : Digits[i] = last) - 1]

\* The reply of SCAN: the next cursor as a bulk string, then the array of keys.
ArrayReply(cursor, keys) ==
    [t |-> "array", n |-> 0, s |-> "",
     a |-> <<Bulk(Itoa(cursor)), [t |-> "array", n |-> 0, s |-> "", a |-> keys]>>]

RECURSIVE SetToSeq(_)
SetToSeq(S) ==
    IF S = {} THEN <<>>
    ELSE LET x == CHOOSE y \in S : TRUE IN <<x>> \o SetToSeq(S \ {x})

\* Whether text t occurs in s.
Contains(s, t) ==
    \E i \in 1..(Len(s) - Len(t) + 1) : SubSeq(s, i, i + Len(t) - 1) = t

\* The store's glob match: "*" in the pattern stands for any text, every other
\* character for itself.
RECURSIVE GlobMatch(_, _)
GlobMatch(pattern, key) ==
    IF pattern = "" THEN key = ""
    ELSE IF SubSeq(pattern, 1, 1) = "*"
    THEN \/ GlobMatch(SubSeq(pattern, 2, Len(pattern)), key)
         \/ key # "" /\ GlobMatch(pattern, SubSeq(key, 2, Len(key)))
    ELSE /\ key # ""
         /\ SubSeq(pattern, 1, 1) = SubSeq(key, 1, 1)
         /\ GlobMatch(SubSeq(pattern, 2, Len(pattern)), SubSeq(key, 2, Len(key)))

\* SCAN walks the store's table slot by slot: the cursor names the slot to
\* visit, a call returns the keys of that slot that match and the cursor of the
\* next slot, 0 after the last one.  A call may return no key and a cursor
\* other than 0.  The slot of a key, here its length modulo the number of
\* slots, stands for its hash.
ScanKeys(st, pattern, cursor) ==
    {k \in DOMAIN st : Len(k) % ScanSlots = cursor /\ GlobMatch(pattern, k)}

Range(q) == {q[i] : i \in DOMAIN q}
Has(st, k) == k \in DOMAIN st

Put(st, k, e) == [x \in DOMAIN st \cup {k} |-> IF x = k THEN e ELSE st[x]]

StoreReply(st, c) ==
    CASE c.name = "PING" -> Status("PONG")
      [] c.name = "SET" ->
            IF c.keys = <<>> THEN ErrReply("ERR wrong number of arguments")
            ELSE IF c.nx /\ Has(st, c.keys[1]) THEN NilReply ELSE Status("OK")
      [] c.name = "SETEX" -> Status("OK")
      [] c.name = "GET" ->
            IF Has(st, c.keys[1]) THEN Bulk(st[c.keys[1]].val) ELSE NilReply
      [] c.name = "DEL" -> IntReply(Cardinality(Range(c.keys) \cap DOMAIN st))
      [] c.name = "INCR" ->
            IF ~Has(st, c.keys[1]) THEN IntReply(1)
            ELSE IF Atoi(st[c.keys[1]].val).ok THEN IntReply(Atoi(st[c.keys[1]].val).n + 1)
            ELSE ErrReply("ERR value is not an integer or out of range")
      [] c.name = "DECR" ->
            IF ~Has(st, c.keys[1]) THEN IntReply(-1)
            ELSE IF Atoi(st[c.keys[1]].val).ok THEN IntReply(Atoi(st[c.keys[1]].val).n - 1)
            ELSE ErrReply("ERR value is not an integer or out of range")
      [] c.name = "HGET" ->
            IF ~Has(st, c.keys[1]) THEN NilReply
            ELSE ErrReply("WRONGTYPE Operation against a key holding the wrong kind of value")
      [] c.name = "SCAN" ->
            ArrayReply(IF c.ex + 1 < ScanSlots THEN c.ex + 1 ELSE 0,
                       SetToSeq(ScanKeys(st, c.val, c.ex)))
      [] c.name = "EVAL" ->
            IF Has(st, c.keys[1]) THEN Bulk(st[c.keys[1]].val) ELSE NilReply
      [] c.name = "EXISTS" -> IntReply(IF Has(st, c.keys[1]) THEN 1 ELSE 0)
      [] c.name = "TTL" ->
            IntReply(IF Has(st, c.keys[1]) THEN st[c.keys[1]].ttl ELSE -2)
      [] c.name \in {"SUBSCRIBE", "PSUBSCRIBE"} -> Status("subscribed")
      [] OTHER -> ErrReply("ERR unknown command")

StoreNext(st, c) ==
    CASE c.name = "SET" /\ c.keys # <<>> /\ ~(c.nx /\ Has(st, c.keys[1])) ->
            Put(st, c.keys[1], [val |-> c.val, ttl |-> IF c.ex > 0 THEN c.ex ELSE -1])
      [] c.name = "SETEX" -> Put(st, c.keys[1], [val |-> c.val, ttl |-> c.ex])
      [] c.name = "DEL" -> [x \in DOMAIN st \ Range(c.keys) |-> st[x]]
      [] c.name \in {"INCR", "DECR"} /\ StoreReply(st, c).t = "int" ->
            Put(st, c.keys[1],
                [val |-> Itoa(StoreReply(st, c).n),
                 ttl |-> IF Has(st, c.keys[1]) THEN st[c.keys[1]].ttl ELSE -1])
      [] OTHER -> st

IsWrite(c) == c.name \in {"SET", "SETEX", "DEL", "INCR", "DECR"} /\ c.keys # <<>>

\* What the store holds under key k: [exists, val, ttl].
Entry(st, k) ==
    IF Has(st, k) THEN [exists |-> TRUE, val |-> st[k].val, ttl |-> st[k].ttl]
    ELSE [exists |-> FALSE, val |-> "", ttl |-> -2]

\* The record of a write: the operation that issued it with its key (or
\* pattern), data and ttl arguments, the key and the value the command named, and whether the store
\* changed.
NoWrite ==
    [op |-> "", arg |-> "", key |-> "", data |-> [t |-> "string", s |-> ""], val |-> "",
     ttl |-> 0, applied |-> FALSE]
WriteOf(st, c, o) ==
    [op |-> o.name, arg |-> o.key, key |-> c.keys[1], data |-> o.val, val |-> c.val, ttl |-> o.ttl,
     applied |-> IF c.name = "DEL" THEN Has(st, c.keys[1])
                 ELSE IF c.name \in {"INCR", "DECR"} THEN StoreReply(st, c).t = "int"
                 ELSE ~(c.nx /\ Has(st, c.keys[1]))]
Expiry == [NoWrite EXCEPT !.op = "expire", !.applied = TRUE]

(***************************************************************************)
(* redigo's reply helpers.                                                 *)
(***************************************************************************)
ReplyErr(r) ==
    IF r.t = "err" THEN r.s ELSE "nil"

\* redis.Bool: an integer is true when it is not 0.
RedisBoolNoError(r) == [b |-> r.t # "err", err |-> IF r.t = "err" THEN r.s ELSE "nil"]
RedisBool(r) ==
    CASE r.t = "err" -> [b |-> FALSE, err |-> r.s]
      [] r.t = "int" -> [b |-> r.n # 0, err |-> "nil"]
      [] r.t = "nil" -> [b |-> FALSE, err |-> "ErrNil"]
      [] OTHER -> [b |-> FALSE, err |-> "unexpected type"]

\* redis.Int: an integer reply, or a bulk string that parses as one.
RedisIntAsBool(r) == [n |-> IF r.t = "int" /\ r.n # 0 THEN 1 ELSE 0, err |-> ReplyErr(r)]
RedisInt(r) ==
    CASE r.t = "err" -> [n |-> 0, err |-> r.s]
      [] r.t = "int" -> [n |-> r.n, err |-> "nil"]
      [] r.t = "bulk" -> [n |-> Atoi(r.s).n, err |-> IF Atoi(r.s).ok THEN "nil" ELSE "strconv"]
      [] r.t = "nil" -> [n |-> 0, err |-> "ErrNil"]
      [] OTHER -> [n |-> 0, err |-> "unexpected type"]

\* redis.Bytes and redis.String: a bulk or status reply is its text.
RedisString(r) ==
    CASE r.t = "err" -> [s |-> "", err |-> r.s]
      [] r.t \in {"bulk", "status"} -> [s |-> r.s, err |-> "nil"]
      [] r.t = "nil" -> [s |-> "", err |-> "ErrNil"]
      [] OTHER -> [s |-> "", err |-> "unexpected type"]

\* redis.Values: an array reply is its elements.
RedisValues(r) ==
    CASE r.t = "err" -> [err |-> r.s]
      [] r.t = "array" -> [err |-> "nil"]
      [] r.t = "nil" -> [err |-> "ErrNil"]
      [] OTHER -> [err |-> "unexpected type"]

\* redis.Strings: the elements of an array reply.
RedisStrings(r) ==
    CASE r.t = "err" -> [a |-> <<>>, err |-> r.s]
      [] r.t = "array" -> [a |-> r.a, err |-> "nil"]
      [] r.t = "nil" -> [a |-> <<>>, err |-> "ErrNil"]
      [] OTHER -> [a |-> <<>>, err |-> "unexpected type"]

\* A reply of SCAN that does not have the shape of one: its cursor is not a
\* number, or its second element is not an array.
ReplyShapes == {"wellformed", "cursor", "keys"}
Malformed(r, shape) ==
    CASE r.t = "array" /\ shape = "cursor" -> [r EXCEPT !.a[1] = Bulk("x")]
      [] r.t = "array" /\ shape = "keys" -> [r EXCEPT !.a[2] = Bulk("x")]
      [] OTHER -> r

(***************************************************************************)
(* The Go values callers pass as data: strings, values of a struct type    *)
(* User{Name string; Age int} with Age 30, and a channel.                  *)
(***************************************************************************)
Str(s) == [t |-> "string", s |-> s]
User(name) == [t |-> "struct", s |-> name]
Chan == [t |-> "chan", s |-> ""]
NoValue == Str("")

\* fmt.Sprint of a value.
Sprint(v) ==
    CASE v.t = "string" -> v.s
      [] v.t = "struct" -> "{" \o v.s \o " 30}"
      [] OTHER -> "0xc000010000"

\* The bytes redigo writes for a command argument: a string as it is, a value
\* of the other types of this model as fmt prints it.
WriteArg(v) == IF v.t = "string" THEN v.s ELSE Sprint(v)

\* json.Marshal: a channel cannot be marshalled.
JsonMarshal(v) ==
    CASE v.t = "string" -> [ok |-> TRUE, s |-> "\"" \o v.s \o "\""]
      [] v.t = "struct" ->
            [ok |-> TRUE, s |-> "{\"Name\":\"" \o v.s \o "\",\"Age\":30}"]
      [] OTHER -> [ok |-> FALSE, s |-> ""]

\* json.Unmarshal(bytes, &y) for y of the type of target: a JSON string into a
\* string, a JSON object with Name and Age into a User; anything else fails
\* and leaves y as it was.
JsonUnmarshal(bytes, target) ==
    LET Wrapped(pre, post) ==
            /\ Len(bytes) >= Len(pre) + Len(post)
            /\ SubSeq(bytes, 1, Len(pre)) = pre
            /\ SubSeq(bytes, Len(bytes) - Len(post) + 1, Len(bytes)) = post
        Inner(pre, post) == SubSeq(bytes, Len(pre) + 1, Len(bytes) - Len(post))
    IN  CASE target.t = "string" /\ Wrapped("\"", "\"") ->
                [ok |-> TRUE, v |-> Str(Inner("\"", "\""))]
          [] target.t = "struct" /\ Wrapped("{\"Name\":\"", "\",\"Age\":30}") ->
                [ok |-> TRUE, v |-> User(Inner("{\"Name\":\"", "\",\"Age\":30}"))]
          [] OTHER -> [ok |-> FALSE, v |-> target]

(***************************************************************************)
(* The operations of the Manager.  An operation is the method's name, the *)
(* Manager it is called on and its arguments.                             *)
(***************************************************************************)
Op(name, m, cmd, key, val, ttl, opts) ==
    [name |-> name, m |-> m, cmd |-> cmd, key |-> key, val |-> val, ttl |-> ttl,
     opts |-> opts]
NoOp == Op("none", "A", "", "", NoValue, 0, <<>>)

ContextOps ==
    {"DoWithContext", "LuaWithContext", "BatchDelWithContext", "SetJSONWithContext",
     "GetJSONWithContext", "IncrWithContext", "GetWithContext", "GetStringWithContext",
     "ExistsWithContext", "SubscribeWithContext", "PSubscribeWithContext",
     "SetNXWithContext"}
RawOps == {"Do", "DoWithContext"}
LuaOps == {"Lua", "LuaWithContext"}
BatchOps == {"BatchDel", "BatchDelWithContext"}
JsonOps == {"SetJSON", "SetJSONWithContext"}
GetJsonOps == {"GetJSON", "GetJSONWithContext"}
IncrOps == {"Incr", "IncrWithContext"}
SetNXOps == {"SetNX", "SetNXWithContext"}
GetOps == {"Get", "GetWithContext"}
GetStringOps == {"GetString", "GetStringWithContext"}
SubscribeOps == {"Subscribe", "SubscribeWithContext", "PSubscribe", "PSubscribeWithContext"}
\* Hset(key, field, value), HExists(key, field) and HDel(key, field): an
\* operation of these carries the field as its val and Hset's value as its cmd.
HashOps == {"Hset", "HExists", "HDel"}

\* strings.ToUpper, for the letters of the method names.
RECURSIVE ToUpper(_)
ToUpper(s) ==
    LET lower == "abcdefghijklmnopqrstuvwxyz"
        upper == "ABCDEFGHIJKLMNOPQRSTUVWXYZ"
        c == SubSeq(s, 1, 1)
        at == {i \in 1..Len(lower) : SubSeq(lower, i, i) = c}
    IN  IF s = "" THEN ""
        ELSE (IF at = {} THEN c ELSE LET i == CHOOSE j \in at : TRUE IN SubSeq(upper, i, i))
             \o ToUpper(SubSeq(s, 2, Len(s)))

\* The value Set passes to SET: its data argument as it is, which redigo writes.
SetValue(data) == WriteArg(data)

\* The value SetJSON passes to SET: the JSON encoding of its value argument.
SetJSONValueRaw(value) == WriteArg(value)
SetJSONValue(value) == JsonMarshal(value).s

\* The EX argument of Set and SetNX: the ttl when it is positive, else none (0).
SetExpiryNone(ttl) == 0
SetExpiry(ttl) == IF ttl > 0 THEN ttl ELSE 0

\* SetNX returns (false, nil) when redis.String reports the store's nil reply.
SetNXErrPropagated(err) == err
SetNXErr(err) == IF err = "ErrNil" THEN "nil" ELSE err

\* BatchDel's error for a failed SCAN or DEL: fmt.Errorf wraps the cause.
BatchErrIgnored(what, err) == "nil"
BatchErr(what, err) == what \o " operation failed: " \o err

\* BatchDel leaves its loop when the cursor it decoded is 0.
ScanDoneAtOnce(cursor) == TRUE
ScanDone(cursor) == cursor = 0

\* The keys BatchDel passes to DEL: redis.Args{}.AddFlat(keys), all of the batch.
FirstKeyOnly(keys) == <<keys[1]>>
DelArgs(keys) == keys

\* The pattern BatchDel scans for.
FullPatternExact(m, pattern) == mgr[m].Prefix \o pattern
FullPattern(m, pattern) == "*" \o mgr[m].Prefix \o pattern \o "*"

\* The command an operation issues at stage "cmd" or "cmd2" of its code, l being
\* its local state.  Do passes its arguments on as they are; so does Lua, whose
\* script (run by EVALSHA, or EVAL when the store does not know it yet) reads
\* KEYS[1].  BatchDel scans (cmd), then deletes the keys the scan returned (cmd2).
CmdOf(o, stage, l) ==
    CASE o.name \in {"New", "Ping"} -> Command("PING", <<>>, "", 0, FALSE)
      [] o.name \in RawOps ->
            Command(o.cmd, IF o.key = "" THEN <<>> ELSE <<o.key>>, WriteArg(o.val), 0, FALSE)
      [] o.name \in LuaOps -> Command("EVAL", <<o.key>>, "", 0, FALSE)
      [] o.name \in BatchOps ->
            IF stage = "cmd"
            THEN [Command("SCAN", <<>>, FullPattern(o.m, o.key), l.cursor, FALSE)
                  EXCEPT !.count = ScanCount]
            ELSE Command("DEL", DelArgs(l.keys), "", 0, FALSE)
      [] o.name \in {"Exists", "ExistsWithContext"} ->
            Command("EXISTS", <<prefixKey(o.m, o.key)>>, "", 0, FALSE)
      [] o.name = "Del" -> Command("DEL", <<prefixKey(o.m, o.key)>>, "", 0, FALSE)
      [] o.name = "Ttl" -> Command("TTL", <<prefixKey(o.m, o.key)>>, "", 0, FALSE)
      [] o.name = "Set" ->
            Command("SET", <<prefixKey(o.m, o.key)>>, SetValue(o.val), SetExpiry(o.ttl), FALSE)
      [] o.name \in SetNXOps ->
            Command("SET", <<prefixKey(o.m, o.key)>>, WriteArg(o.val), SetExpiry(o.ttl), TRUE)
      [] o.name \in GetOps \cup GetStringOps ->
            IF stage = "cmd"
            THEN Command("EXISTS", <<prefixKey(o.m, o.key)>>, "", 0, FALSE)
            ELSE Command("GET", <<prefixKey(o.m, o.key)>>, "", 0, FALSE)
      [] o.name = "SetJSON" ->
            IF o.ttl > 0
            THEN Command("SET", <<prefixKey(o.m, o.key)>>, SetJSONValue(o.val), o.ttl, FALSE)
            ELSE Command("SET", <<mgr[o.m].Prefix \o o.key>>, SetJSONValue(o.val), 0, FALSE)
      [] o.name = "SetJSONWithContext" ->
            IF o.ttl > 0
            THEN Command("SETEX", <<mgr[o.m].Prefix \o o.key>>, SetJSONValue(o.val), o.ttl, FALSE)
            ELSE Command("SET", <<mgr[o.m].Prefix \o o.key>>, SetJSONValue(o.val), 0, FALSE)
      [] o.name \in GetJsonOps -> Command("GET", <<mgr[o.m].Prefix \o o.key>>, "", 0, FALSE)
      [] o.name \in IncrOps -> Command("INCR", <<prefixKey(o.m, o.key)>>, "", 0, FALSE)
      [] o.name = "Hset" -> Command("INCR", <<prefixKey(o.m, o.key)>>, "", 0, FALSE)
      [] o.name = "HExists" -> Command("DECR", <<prefixKey(o.m, o.key)>>, "", 0, FALSE)
      [] o.name = "HDel" -> Command("HGET", <<prefixKey(o.m, o.key)>>, o.val.s, 0, FALSE)
      [] o.name \in SubscribeOps ->
            Command(IF o.name \in {"PSubscribe", "PSubscribeWithContext"}
                    THEN "PSUBSCRIBE" ELSE "SUBSCRIBE",
                    <<mgr[o.m].Prefix \o o.key>>, "", 0, FALSE)

\* What the operation's code does with the reply r of its command at `stage`:
\* the next place in the code, the values it will return, and for BatchDel the
\* cursor and the keys of its loop.
Cont(next, err, b, n, str) ==
    [pc |-> next, err |-> err, b |-> b, n |-> n, s |-> str, y |-> NoValue, cursor |-> 0,
     keys |-> <<>>]

Continue(o, stage, r, l) ==
    CASE o.name \in {"Exists", "ExistsWithContext", "Del"} ->
            Cont("close", RedisBool(r).err, RedisBool(r).b, 0, "")
      [] o.name \in {"Ttl", "Hset", "HExists"} \cup IncrOps ->
            Cont("close", RedisInt(r).err, FALSE, RedisInt(r).n, "")
      [] o.name = "HDel" -> Cont("close", RedisString(r).err, FALSE, 0, RedisString(r).s)
      [] o.name \in SetNXOps ->
            IF RedisString(r).err # "nil"
            THEN Cont("close", SetNXErr(RedisString(r).err), FALSE, 0, "")
            ELSE Cont("close", "nil", RedisString(r).s = "OK", 0, "")
      [] o.name \in GetStringOps /\ stage = "cmd" ->
            IF ~RedisBool(r).b \/ RedisBool(r).err # "nil"
            THEN Cont("close", RedisBool(r).err, FALSE, 0, "")
            ELSE Cont("cmd2", "nil", FALSE, 0, "")
      [] o.name \in GetOps /\ stage = "cmd" ->
            IF RedisBool(r).err # "nil" THEN Cont("close", RedisBool(r).err, FALSE, 0, "")
            ELSE IF ~RedisBool(r).b THEN Cont("close", "ErrNil", FALSE, 0, "")
            ELSE Cont("cmd2", "nil", FALSE, 0, "")
      [] o.name \in GetOps \cup GetStringOps /\ stage = "cmd2" ->
            Cont("close", RedisString(r).err, FALSE, 0, RedisString(r).s)
      [] o.name \in RawOps \cup LuaOps ->
            Cont("close", ReplyErr(r), FALSE, IF r.t = "err" THEN 0 ELSE r.n,
                 IF r.t = "err" THEN "" ELSE r.s)
      [] o.name \in BatchOps /\ stage = "cmd" ->
            IF RedisValues(r).err # "nil"
            THEN Cont("close", BatchErr("SCAN", RedisValues(r).err), FALSE, 0, "")
            ELSE [Cont(IF RedisStrings(r.a[2]).a # <<>> THEN "cmd2"
                       ELSE IF ScanDone(RedisInt(r.a[1]).n) THEN "close" ELSE "cmd",
                       "nil", FALSE, 0, "")
                  EXCEPT !.cursor = RedisInt(r.a[1]).n, !.keys = RedisStrings(r.a[2]).a]
      [] o.name \in BatchOps /\ stage = "cmd2" ->
            IF ReplyErr(r) # "nil"
            THEN Cont("close", BatchErr("DEL", ReplyErr(r)), FALSE, 0, "")
            ELSE [Cont(IF ScanDone(l.cursor) THEN "close" ELSE "cmd", "nil", FALSE, 0, "")
                  EXCEPT !.cursor = l.cursor]
      [] o.name \in GetJsonOps ->
            IF ReplyErr(r) # "nil" THEN [Cont("close", ReplyErr(r), FALSE, 0, "") EXCEPT !.y = o.val]
            ELSE IF r.t = "nil" THEN [Cont("close", "ErrNil", FALSE, 0, "") EXCEPT !.y = o.val]
            ELSE IF RedisString(r).err # "nil"
            THEN [Cont("close", RedisString(r).err, FALSE, 0, "") EXCEPT !.y = o.val]
            ELSE [Cont("close",
                       IF JsonUnmarshal(RedisString(r).s, o.val).ok THEN "nil" ELSE "json",
                       FALSE, 0, "")
                  EXCEPT !.y = JsonUnmarshal(RedisString(r).s, o.val).v]
      [] OTHER -> Cont("close", ReplyErr(r), FALSE, 0, "")

\* Whether conn.Close() runs when the operation returns with error err: every
\* operation defers it, but SubscribeWithContext and PSubscribeWithContext close
\* only when subscribing failed.
DeferredCloseOnSuccessOnly(name, err) == err = "nil"
DeferredClose(name, err) ==
    name \notin {"SubscribeWithContext", "PSubscribeWithContext"} \/ err # "nil"

\* The connection (0: none) the handle of a returned session still has: conn.Close()
\* detaches the handle it closes.
SessionHandleKept(c, closes) == c.id
SessionHandle(c, closes) == IF closes THEN 0 ELSE c.id

\* New returns the Manager and the error of its Ping.
NewErrIgnored(pingErr) == "nil"
NewErr(pingErr) == pingErr

(***************************************************************************)
(* The pool.                                                               *)
(***************************************************************************)
Open(m) == pool[m].leased \cup Range(pool[m].idle)
FreshId(m) == CHOOSE i \in ConnIds \ Open(m) : \A j \in ConnIds \ Open(m) : i <= j

NoConn == [st |-> "none", id |-> 0, sub |-> FALSE]
ErrorConn == [st |-> "error", id |-> 0, sub |-> FALSE]
ExhaustedConn == [st |-> "exhausted", id |-> 0, sub |-> FALSE]
NoSession == [m |-> "", id |-> 0, open |-> FALSE]

\* The pool's admission: MaxActive <= 0 sets no limit; with MaxActive > 0 a Get
\* that finds MaxActive connections leased waits when Wait is set, and returns
\* ErrPoolExhausted at once when it is not.
ErrPoolExhausted == "redigo: connection pool exhausted"
NoLimit(m) == TRUE
CanAcquire(m) ==
    \/ mgr[m].MaxActive <= 0
    \/ Cardinality(pool[m].leased) < mgr[m].MaxActive

\* The pool's idle timeout: Get closes the idle connections that have been idle
\* for longer than IdleTimeout, when that is positive.
NeverStale(m, a) == FALSE
Stale(m, a) == mgr[m].IdleTimeout > 0 /\ a > mgr[m].IdleTimeout

\* The pool's TestOnBorrow, as New sets it: a connection idle for less than a
\* minute passes untested, an older one passes when PING succeeds on it.
TestOnBorrow(a, pingok) == a < ProbeThreshold \/ pingok

\* Dial succeeds only when the address can be reached.
Reachable(m) == mgr[m].address = Addr /\ mgr[m].network = DefaultNetwork

\* conn.Close(): the pool takes the connection back, keeps it idle unless it is
\* broken or subscribed, and closes the oldest idle one beyond MaxIdle.
PoolPut(m, c) ==
    LET kept == IF c.st = "ok" /\ ~c.sub THEN <<c.id>> \o pool[m].idle ELSE pool[m].idle
        ages == IF c.st = "ok" /\ ~c.sub THEN <<0>> \o pool[m].age ELSE pool[m].age
    IN  [leased |-> pool[m].leased \ {c.id},
         idle |-> IF Len(kept) > mgr[m].MaxIdle THEN SubSeq(kept, 1, Len(kept) - 1)
                  ELSE kept,
         age |-> IF Len(kept) > mgr[m].MaxIdle THEN SubSeq(ages, 1, Len(kept) - 1)
                 ELSE ages]

Release(m, c) ==
    IF c.st \in {"ok", "broken"} THEN [pool EXCEPT ![m] = PoolPut(m, c)] ELSE pool

\* The calls whose results an observer keeps, in the order they return: those of
\* Incr, and those of SetNX on the key "lock".
Observed(o) == o.name \in IncrOps \/ (o.name \in SetNXOps /\ o.key = "lock")

\* An operation's local state: the values it will return (err, b, n, s, and y
\* for what GetJSON decodes into), the cursor and keys of BatchDel's loop, and
\* for the record: the store as BatchDel's first SCAN found it (st0), whether a
\* reply did not have the shape of its command's reply (bad), whether the
\* context it was given is done (ctx), the commands it
\* has passed to conn.Do, the connections it has acquired, the last write
\* before its last command (before its first SCAN for BatchDel), and what the
\* store held under that command's key before and after it.
NoEntry == Entry(<<>>, "")
NoLoc ==
    [err |-> "nil", b |-> FALSE, n |-> 0, s |-> "", y |-> NoValue, cursor |-> 0,
     keys |-> <<>>, st0 |-> <<>>, bad |-> FALSE, ctx |-> "live",
     cmds |-> <<>>, acq |-> 0, prior |-> NoWrite, before |-> NoEntry, after |-> NoEntry]
\* A returned operation: what it returned, the error of its last command (cerr)
\* and how often it released a connection (rel).
NoRet ==
    [p |-> 0, op |-> NoOp, err |-> "nil", cerr |-> "nil", b |-> FALSE, n |-> 0, s |-> "",
     y |-> NoValue, st0 |-> <<>>, bad |-> FALSE,
     cmds |-> <<>>, acq |-> 0, rel |-> 0, prior |-> NoWrite, before |-> NoEntry,
     after |-> NoEntry]
NoSent == [p |-> 0, m |-> "", op |-> "none", key |-> "", cmd |-> NoCommand]

Result(p, o, l, rel) ==
    [p |-> p, op |-> o, err |-> IF o.name = "New" THEN NewErr(l.err) ELSE l.err,
     cerr |-> l.err, b |-> l.b, n |-> l.n, s |-> l.s, y |-> l.y, st0 |-> l.st0,
     bad |-> l.bad, cmds |-> l.cmds,
     acq |-> l.acq, rel |-> rel, prior |-> l.prior, before |-> l.before, after |-> l.after]

(***************************************************************************)
(* The steps of an operation.                                              *)
(***************************************************************************)
\* Caller p calls operation o.  New builds the Manager and its pool first.
Call(p, o) ==
    /\ pc[p] = "idle"
    /\ ~sess[p].open
    /\ IF o.name = "New" THEN mgr[o.m].st \in {"none", "failed"}
       ELSE mgr[o.m].st = "ready"
    /\ mgr' = IF o.name = "New" THEN [mgr EXCEPT ![o.m] = NewManager(o.opts)] ELSE mgr
    /\ op' = [op EXCEPT ![p] = o]
    /\ pc' = [pc EXCEPT ![p] = "get"]
    /\ loc' = [loc EXCEPT ![p] = NoLoc]
    /\ ret' = NoRet
    /\ sent' = NoSent
    /\ UNCHANGED <<pool, store, conn, sess, lastWrite, returned>>

\* m.ConnPool.Get() or GetContext(ctx).  The pool closes the idle connections
\* that are stale, then tests the remaining ones from the one used last on and
\* hands out the first that passes TestOnBorrow, closing those that fail; with
\* none left it dials.  The PINGs of the test are the command sent, with the
\* connections they went to as its keys.  A failed dial, or a pool that is
\* exhausted and does not wait, gives Get's caller an error connection, and
\* makes GetContext's caller return the error at once.
PoolGet(p) ==
    LET o == op[p]
        m == o.m
        idle == pool[m].idle
        age == pool[m].age
        free == CanAcquire(m)
        getErr == IF free THEN "dial" ELSE ErrPoolExhausted
        n == Cardinality({i \in DOMAIN idle : ~Stale(m, age[i])})
    IN  /\ pc[p] = "get"
        /\ free \/ ~mgr[m].Wait
        /\ \E dialok \in BOOLEAN, pingok \in [1..n -> BOOLEAN] :
            LET passing == {i \in 1..n : TestOnBorrow(age[i], pingok[i])}
                first == IF passing = {} THEN n + 1
                         ELSE CHOOSE i \in passing : \A j \in passing : i <= j
                reuse == first <= n
                id == IF reuse THEN idle[first] ELSE FreshId(m)
                tested == {i \in 1..n : i <= first /\ age[i] >= ProbeThreshold}
                probes == [i \in 1..Cardinality(tested) |-> Itoa(idle[i])]
            IN  /\ \A i \in 1..n : age[i] < ProbeThreshold => pingok[i]
                /\ dialok => (free /\ (reuse \/ Reachable(m)))
                /\ ~dialok => (~reuse \/ ~free)
                /\ pool' = IF free
                           THEN [pool EXCEPT ![m] =
                                   [leased |-> IF dialok THEN pool[m].leased \cup {id}
                                               ELSE pool[m].leased,
                                    idle |-> SubSeq(idle, first + 1, n),
                                    age |-> SubSeq(age, first + 1, n)]]
                           ELSE pool
                /\ sent' = IF free /\ tested # {}
                           THEN [p |-> p, m |-> m, op |-> o.name, key |-> o.key,
                                 cmd |-> Command("PING", probes, "", 0, FALSE)]
                           ELSE NoSent
                /\ IF dialok
                   THEN /\ conn' = [conn EXCEPT ![p] = [st |-> "ok", id |-> id, sub |-> FALSE]]
                        /\ loc' = [loc EXCEPT ![p].acq = 1]
                        /\ pc' = [pc EXCEPT ![p] = "cmd"]
                        /\ ret' = NoRet
                        /\ UNCHANGED <<op, returned>>
                   ELSE IF o.name \in ContextOps
                   THEN /\ ret' = Result(p, o, [loc[p] EXCEPT !.err = getErr], 0)
                        /\ returned' = IF Observed(o)
                                       THEN Append(returned,
                                                   Result(p, o, [loc[p] EXCEPT !.err = getErr], 0))
                                       ELSE returned
                        /\ pc' = [pc EXCEPT ![p] = "idle"]
                        /\ op' = [op EXCEPT ![p] = NoOp]
                        /\ loc' = [loc EXCEPT ![p] = NoLoc]
                        /\ UNCHANGED conn
                   ELSE /\ conn' = [conn EXCEPT ![p] =
                                     IF free THEN ErrorConn ELSE ExhaustedConn]
                        /\ pc' = [pc EXCEPT ![p] = "cmd"]
                        /\ ret' = NoRet
                        /\ UNCHANGED <<loc, op, returned>>
        /\ UNCHANGED <<mgr, store, sess, lastWrite>>

\* The operation's next command: conn.Do sends it, the store executes it and the
\* code decodes the reply.  A JSON operation marshals its value first and issues
\* no command when that fails.  On a connection that failed to dial, or when the
\* network fails, Do returns an error and the store executes nothing.
ExecReply(p, shapes) ==
    LET o == op[p]
        c == CmdOf(o, pc[p], loc[p])
        marshalErr == o.name \in JsonOps /\ ~JsonMarshal(o.val).ok
    IN  /\ pc[p] \in {"cmd", "cmd2"}
        /\ \E netok \in BOOLEAN, shape \in shapes :
            LET done == conn[p].st = "ok" /\ netok /\ ~marshalErr
                r == IF marshalErr THEN ErrReply("json")
                     ELSE IF conn[p].st = "error" THEN ErrReply("dial")
                     ELSE IF conn[p].st = "exhausted" THEN ErrReply(ErrPoolExhausted)
                     ELSE IF ~done THEN ErrReply("io")
                     ELSE Malformed(StoreReply(store, c), shape)
                k == Continue(o, pc[p], r, loc[p])
            IN  /\ (conn[p].st # "ok" \/ marshalErr) => netok
                /\ shape # "wellformed" => (done /\ c.name = "SCAN")
                /\ store' = IF done THEN StoreNext(store, c) ELSE store
                /\ lastWrite' = IF done /\ IsWrite(c) THEN WriteOf(store, c, o) ELSE lastWrite
                /\ sent' = IF conn[p].st = "ok" /\ ~marshalErr
                           THEN [p |-> p, m |-> o.m, op |-> o.name, key |-> o.key, cmd |-> c]
                           ELSE NoSent
                /\ conn' = [conn EXCEPT ![p] =
                              IF conn[p].st = "ok" /\ ~marshalErr
                              THEN [st |-> IF netok THEN "ok" ELSE "broken", id |-> conn[p].id,
                                    sub |-> conn[p].sub \/ c.name \in {"SUBSCRIBE", "PSUBSCRIBE"}]
                              ELSE conn[p]]
                /\ loc' = [loc EXCEPT ![p] =
                              [err |-> k.err, b |-> k.b, n |-> k.n, s |-> k.s,
                               y |-> k.y, cursor |-> k.cursor, keys |-> k.keys,
                               st0 |-> IF o.name \in BatchOps /\ loc[p].cmds = <<>>
                                       THEN store ELSE loc[p].st0,
                               bad |-> loc[p].bad \/ shape # "wellformed",
                               ctx |-> loc[p].ctx,
                               cmds |-> IF marshalErr THEN loc[p].cmds
                                        ELSE Append(loc[p].cmds, c.name),
                               acq |-> loc[p].acq,
                               prior |-> IF o.name \in BatchOps /\ loc[p].cmds # <<>>
                                         THEN loc[p].prior ELSE lastWrite,
                               before |-> IF c.keys = <<>> \/ marshalErr THEN NoEntry
                                          ELSE Entry(store, c.keys[1]),
                               after |-> IF c.keys = <<>> \/ marshalErr THEN NoEntry
                                         ELSE Entry(store', c.keys[1])]]
                /\ pc' = [pc EXCEPT ![p] = k.pc]
        /\ ret' = NoRet
        /\ UNCHANGED <<mgr, pool, op, sess, returned>>

\* The step against a store whose replies have the shape the protocol gives them.
Exec(p) == ExecReply(p, {"wellformed"})

\* The operation returns: its deferred conn.Close() gives the connection back to
\* the pool and detaches the handle.  A successful Subscribe returns the session
\* over that handle; a successful SubscribeWithContext keeps the connection.
Return(p) ==
    LET o == op[p]
        l == loc[p]
        closes == DeferredClose(o.name, l.err)
        held == conn[p].st \in {"ok", "broken"}
    IN  /\ pc[p] = "close"
        /\ pool' = IF closes THEN Release(o.m, conn[p]) ELSE pool
        /\ sess' = IF o.name \in SubscribeOps /\ l.err = "nil"
                   THEN [sess EXCEPT ![p] =
                            [m |-> o.m, id |-> SessionHandle(conn[p], closes), open |-> TRUE]]
                   ELSE sess
        /\ conn' = [conn EXCEPT ![p] = NoConn]
        /\ ret' = Result(p, o, l, IF closes /\ held THEN 1 ELSE 0)
        /\ returned' = IF Observed(o) THEN Append(returned, ret') ELSE returned
        /\ mgr' = IF o.name = "New"
                  THEN [mgr EXCEPT ![o.m].st = IF NewErr(l.err) = "nil" THEN "ready" ELSE "failed"]
                  ELSE mgr
        /\ pc' = [pc EXCEPT ![p] = "idle"]
        /\ op' = [op EXCEPT ![p] = NoOp]
        /\ loc' = [loc EXCEPT ![p] = NoLoc]
        /\ sent' = NoSent
        /\ UNCHANGED <<store, lastWrite>>

\* The context of a WithContext operation that has not returned is cancelled,
\* or its deadline passes.
CtxDone(p) ==
    /\ pc[p] \in {"get", "cmd", "cmd2", "close"}
    /\ op[p].name \in ContextOps
    /\ loc[p].ctx = "live"
    /\ loc' = [loc EXCEPT ![p].ctx = "done"]
    /\ ret' = NoRet
    /\ sent' = NoSent
    /\ UNCHANGED <<mgr, pool, store, pc, op, conn, sess, lastWrite, returned>>

WatchesNowhere(name, at) == FALSE
\* The places where an operation watches its context.  Every WithContext
\* operation passes ctx to ConnPool.GetContext; DoWithContext also passes it to
\* redis.DoContext, the others call conn.Do, which takes no context.
Watches(name, at) ==
    /\ name \in ContextOps
    /\ at = "get" \/ (name = "DoWithContext" /\ at = "cmd")

\* An operation that watches its context finds it done.  GetContext returns
\* ctx.Err() and the operation returns it.  redis.DoContext returns ctx.Err()
\* and marks the connection broken; the store may have executed the command
\* already, or not.
Cancelled(p) ==
    LET o == op[p]
        c == CmdOf(o, pc[p], loc[p])
    IN  /\ pc[p] \in {"get", "cmd", "cmd2"}
        /\ Watches(o.name, pc[p])
        /\ loc[p].ctx = "done"
        /\ IF pc[p] = "get"
           THEN /\ ret' = Result(p, o, [loc[p] EXCEPT !.err = "context canceled"], 0)
                /\ returned' = IF Observed(o) THEN Append(returned, ret') ELSE returned
                /\ pc' = [pc EXCEPT ![p] = "idle"]
                /\ op' = [op EXCEPT ![p] = NoOp]
                /\ loc' = [loc EXCEPT ![p] = NoLoc]
                /\ UNCHANGED <<store, lastWrite, conn>>
           ELSE /\ \E executed \in BOOLEAN :
                     /\ executed => conn[p].st = "ok"
                     /\ store' = IF executed THEN StoreNext(store, c) ELSE store
                     /\ lastWrite' = IF executed /\ IsWrite(c) THEN WriteOf(store, c, o)
                                     ELSE lastWrite
                /\ conn' = [conn EXCEPT ![p].st = IF @ = "ok" THEN "broken" ELSE @]
                /\ loc' = [loc EXCEPT ![p].err = "context canceled",
                                      ![p].cmds = Append(@, c.name)]
                /\ pc' = [pc EXCEPT ![p] = "close"]
                /\ ret' = NoRet
                /\ UNCHANGED <<op, returned>>
        /\ sent' = NoSent
        /\ UNCHANGED <<mgr, pool, sess>>

\* The caller closes its session: psc.Close() closes the handle, which gives the
\* connection back if the handle still has one.
SessClose(p) ==
    /\ pc[p] = "idle"
    /\ sess[p].open
    /\ pool' = IF sess[p].id # 0
               THEN Release(sess[p].m, [st |-> "ok", id |-> sess[p].id, sub |-> TRUE])
               ELSE pool
    /\ sess' = [sess EXCEPT ![p] = NoSession]
    /\ ret' = [NoRet EXCEPT !.p = p, !.op = Op("SessClose", "A", "", "", NoValue, 0, <<>>),
                            !.rel = IF sess[p].id # 0 THEN 1 ELSE 0]
    /\ sent' = NoSent
    /\ UNCHANGED <<mgr, store, pc, op, conn, loc, lastWrite, returned>>

\* d seconds pass for the idle connections of the pools.
Elapse(d) ==
    /\ \E m \in Mgrs : pool[m].idle # <<>>
    /\ \A m \in Mgrs : \A i \in DOMAIN pool[m].age : pool[m].age[i] + d <= MaxIdleAge
    /\ pool' = [m \in Mgrs |->
                  [pool[m] EXCEPT !.age = [i \in DOMAIN pool[m].age |-> pool[m].age[i] + d]]]
    /\ ret' = NoRet
    /\ sent' = NoSent
    /\ UNCHANGED <<mgr, store, pc, op, conn, loc, sess, lastWrite, returned>>

\* One second passes in the store: keys with an expiry age, and expire.
Tick ==
    /\ \E k \in DOMAIN store : store[k].ttl >= 0
    /\ store' = [k \in {x \in DOMAIN store : store[x].ttl # 0} |->
                    IF store[k].ttl > 0 THEN [store[k] EXCEPT !.ttl = @ - 1] ELSE store[k]]
    /\ lastWrite' = IF \E k \in DOMAIN store : store[k].ttl = 0 THEN Expiry ELSE lastWrite
    /\ ret' = NoRet
    /\ sent' = NoSent
    /\ UNCHANGED <<mgr, pool, pc, op, conn, loc, sess, returned>>

Init ==
    /\ mgr = [m \in Mgrs |-> NoManager]
    /\ pool = [m \in Mgrs |-> [leased |-> {}, idle |-> <<>>, age |-> <<>>]]
    /\ store = <<>>
    /\ pc = [p \in Procs |-> "idle"]
    /\ op = [p \in Procs |-> NoOp]
    /\ conn = [p \in Procs |-> NoConn]
    /\ loc = [p \in Procs |-> NoLoc]
    /\ sess = [p \in Procs |-> NoSession]
    /\ ret = NoRet
    /\ sent = NoSent
    /\ lastWrite = NoWrite
    /\ returned = <<>>

\* A caller calls o while no operation is running: the calls follow one another.
SeqCall(p, o) ==
    /\ \A q \in Procs : pc[q] = "idle"
    /\ Call(p, o)

(***************************************************************************)
(* Spec: the operations of one Manager, called one after another, on all  *)
(* their paths: a failed dial, a failed command, a failed marshal.        *)
(***************************************************************************)
Options ==
    { <<WithAddress(Addr)>>,
      <<WithAddress(Addr), WithPrefix("a"), WithMaxActive(1), WithMaxIdle(0)>>,
      <<WithAddress(BadAddr)>> }

Ops ==
    {Op("New", "A", "", "", NoValue, 0, opts) : opts \in Options}
    \cup {Op(n, "A", "", "k", NoValue, 0, <<>>) : n \in {"Ping", "Exists", "Del", "Ttl", "Get"}}
    \cup {Op(n, "A", c, "k", Str("v"), 0, <<>>) :
             n \in {"Do", "DoWithContext"}, c \in {"GET", "NOSUCH"}}
    \cup {Op(n, "A", "", "k", Str("v"), 0, <<>>) : n \in {"Set", "SetNX"}}
    \cup {Op(n, "A", "", "k", v, t, <<>>) : n \in JsonOps, v \in {User("John"), Chan}, t \in {0, 1}}
    \cup {Op(n, "A", "", "k", NoValue, 0, <<>>) : n \in SubscribeOps}

Next ==
    \/ \E p \in Procs, o \in Ops : SeqCall(p, o)
    \/ \E p \in Procs : PoolGet(p)
    \/ \E p \in Procs : Exec(p)
    \/ \E p \in Procs : Return(p)
    \/ \E p \in Procs : SessClose(p)

Spec == Init /\ [][Next]_vars

(***************************************************************************)
(* SpecConc: callers running operations of one Manager concurrently, and  *)
(* holding pub/sub sessions.                                               *)
(***************************************************************************)
ConcOptions ==
    { <<WithAddress(Addr)>>,
      <<WithAddress(Addr), WithMaxActive(1)>>,
      <<WithAddress(Addr), WithMaxActive(0)>> }

ConcOps ==
    {Op("New", "A", "", "", NoValue, 0, opts) : opts \in ConcOptions}
    \cup {Op("Ping", "A", "", "", NoValue, 0, <<>>),
          Op("Subscribe", "A", "", "k", NoValue, 0, <<>>),
          Op("SubscribeWithContext", "A", "", "k", NoValue, 0, <<>>)}

NextConc ==
    \/ \E p \in Procs, o \in ConcOps : Call(p, o)
    \/ \E p \in Procs : PoolGet(p)
    \/ \E p \in Procs : Exec(p)
    \/ \E p \in Procs : Return(p)
    \/ \E p \in Procs : SessClose(p)

SpecConc == Init /\ [][NextConc]_vars

(***************************************************************************)
(* SpecSub: callers that subscribe, to channels and to patterns, hold the  *)
(* sessions and close them, concurrently.                                  *)
(***************************************************************************)
SubCalls ==
    {Op("New", "A", "", "", NoValue, 0, <<WithAddress(Addr), WithPrefix("a")>>)}
    \cup {Op(n, "A", "", "k", NoValue, 0, <<>>) : n \in SubscribeOps}

NextSub ==
    \/ \E p \in Procs, o \in SubCalls : Call(p, o)
    \/ \E p \in Procs : PoolGet(p)
    \/ \E p \in Procs : Exec(p)
    \/ \E p \in Procs : Return(p)
    \/ \E p \in Procs : SessClose(p)

SpecSub == Init /\ [][NextSub]_vars

(***************************************************************************)
(* SpecPrefix: two Managers on one store, called one after another.       *)
(***************************************************************************)
PrefixOptions ==
    { <<WithAddress(Addr)>>,
      <<WithAddress(Addr), WithPrefix("a")>>,
      <<WithAddress(Addr), WithPrefix("ba")>> }

PrefixKeys == {"k"}

PrefixOps ==
    {Op("New", m, "", "", NoValue, 0, opts) : m \in Mgrs, opts \in PrefixOptions}
    \cup {Op(n, m, "", k, NoValue, 0, <<>>) : n \in {"Exists", "Del", "Get"}, m \in Mgrs, k \in PrefixKeys}
    \cup {Op("Set", m, "", k, Str(m), 0, <<>>) : m \in Mgrs, k \in PrefixKeys}
    \cup {Op(n, m, "GET", k, NoValue, 0, <<>>) : n \in RawOps, m \in Mgrs, k \in PrefixKeys}
    \cup {Op(n, m, "", k, NoValue, 0, <<>>) : n \in LuaOps \cup {"BatchDel"}, m \in Mgrs, k \in PrefixKeys}

NextPrefix ==
    \/ \E p \in Procs, o \in PrefixOps : SeqCall(p, o)
    \/ \E p \in Procs : PoolGet(p)
    \/ \E p \in Procs : Exec(p)
    \/ \E p \in Procs : Return(p)

SpecPrefix == Init /\ [][NextPrefix]_vars

(***************************************************************************)
(* SpecKV: the key operations of one Manager, called one after another,   *)
(* while time passes in the store.                                         *)
(***************************************************************************)
KVOptions == { <<WithAddress(Addr), WithPrefix("a")>> }
KVKeys == {"k"}
KVVals == {Str("v"), User("John")}
TtlArgs == -1..MaxTtl

KVOps ==
    {Op("New", "A", "", "", NoValue, 0, opts) : opts \in KVOptions}
    \cup {Op(n, "A", "", k, NoValue, 0, <<>>) : n \in {"Exists", "Del", "Ttl", "Get"}, k \in KVKeys}
    \cup {Op(n, "A", "", k, v, t, <<>>) :
            n \in {"Set", "SetNX"}, k \in KVKeys, v \in KVVals, t \in TtlArgs}

NextKV ==
    \/ \E p \in Procs, o \in KVOps : SeqCall(p, o)
    \/ \E p \in Procs : PoolGet(p)
    \/ \E p \in Procs : Exec(p)
    \/ \E p \in Procs : Return(p)
    \/ Tick

SpecKV == Init /\ [][NextKV]_vars

(***************************************************************************)
(* SpecHash: the hash methods of one Manager, called one after another.    *)
(* The number their commands keep under a key stays within MaxCount.       *)
(***************************************************************************)
NextHash ==
    \/ \E p \in Procs :
          \E o \in {Op("New", "A", "", "", NoValue, 0, opts) : opts \in KVOptions}
                  \cup {Op("Set", "A", "", k, Str("v"), 0, <<>>) : k \in KVKeys}
                  \cup {Op("Del", "A", "", k, NoValue, 0, <<>>) : k \in KVKeys}
                  \cup {Op(n, "A", "1", k, Str(f), 0, <<>>) :
                           n \in HashOps, k \in KVKeys, f \in {"a", "b"}} :
              /\ \A k \in DOMAIN store :
                    /\ o.name = "Hset" => Atoi(store[k].val).n < MaxCount
                    /\ o.name = "HExists" => Atoi(store[k].val).n > -MaxCount
              /\ SeqCall(p, o)
    \/ \E p \in Procs : PoolGet(p)
    \/ \E p \in Procs : Exec(p)
    \/ \E p \in Procs : Return(p)

SpecHash == Init /\ [][NextHash]_vars

(***************************************************************************)
(* SpecJSON: the JSON operations and the reads of one Manager, called one  *)
(* after another, on keys that also hold what Set and Do wrote (a string,  *)
(* the empty string, a value that is not JSON), while time passes.         *)
(***************************************************************************)
JSONVals == {Str("v"), User("John"), Chan}
JSONTargets == {Str(""), User("")}

JSONOps ==
    {Op("New", "A", "", "", NoValue, 0, opts) : opts \in KVOptions}
    \cup {Op("Del", "A", "", k, NoValue, 0, <<>>) : k \in KVKeys}
    \cup {Op(n, "A", "", k, v, t, <<>>) : n \in JsonOps, k \in KVKeys, v \in JSONVals, t \in {0, 1}}
    \cup {Op(n, "A", "", k, y, 0, <<>>) : n \in GetJsonOps, k \in KVKeys, y \in JSONTargets}
    \cup {Op("Do", "A", "SET", "a:" \o k, Str("{invalid json}"), 0, <<>>) : k \in KVKeys}
    \cup {Op("Set", "A", "", k, v, 0, <<>>) : k \in KVKeys, v \in {Str(""), Str("v")}}
    \cup {Op(n, "A", "", k, NoValue, 0, <<>>) : n \in GetOps \cup GetStringOps, k \in KVKeys}

NextJSON ==
    \/ \E p \in Procs, o \in JSONOps : SeqCall(p, o)
    \/ \E p \in Procs : PoolGet(p)
    \/ \E p \in Procs : Exec(p)
    \/ \E p \in Procs : Return(p)
    \/ Tick

SpecJSON == Init /\ [][NextJSON]_vars

(***************************************************************************)
(* SpecBatch: one Manager whose callers, one after another, set keys and   *)
(* delete them by pattern.  The store answers SCAN slot by slot.           *)
(***************************************************************************)
BatchKeys == {"k", "k2", "j"}
BatchPatterns == {"k", "k*", "*", "x"}

BatchCalls ==
    {Op("New", "A", "", "", NoValue, 0, opts) : opts \in KVOptions}
    \cup {Op("Set", "A", "", k, Str("v"), 0, <<>>) : k \in BatchKeys}
    \cup {Op(n, "A", "", pattern, NoValue, 0, <<>>) : n \in BatchOps, pattern \in BatchPatterns}

NextBatch ==
    \/ \E p \in Procs, o \in BatchCalls : SeqCall(p, o)
    \/ \E p \in Procs : PoolGet(p)
    \/ \E p \in Procs : Exec(p)
    \/ \E p \in Procs : Return(p)

SpecBatch == Init /\ [][NextBatch]_vars

(***************************************************************************)
(* SpecDecode: the operations that decode a reply in several steps, with a *)
(* store, or something between it and the client, whose SCAN replies may   *)
(* lack the shape of one, and with values under the keys that are not the  *)
(* JSON that GetJSON expects.                                              *)
(***************************************************************************)
DecodeCalls ==
    BatchCalls
    \cup {Op(n, "A", "", k, y, 0, <<>>) : n \in GetJsonOps, k \in KVKeys, y \in JSONTargets}
    \cup {Op("Do", "A", "SET", "a:" \o k, Str("{invalid json}"), 0, <<>>) : k \in KVKeys}

NextDecode ==
    \/ \E p \in Procs, o \in DecodeCalls : SeqCall(p, o)
    \/ \E p \in Procs : PoolGet(p)
    \/ \E p \in Procs : ExecReply(p, ReplyShapes)
    \/ \E p \in Procs : Return(p)

SpecDecode == Init /\ [][NextDecode]_vars

(***************************************************************************)
(* SpecIncr: one Manager; a counter is set, or not, and then every caller, *)
(* all at the same time, increments it once.                               *)
(***************************************************************************)
IncrCalls ==
    {Op("New", "A", "", "", NoValue, 0, opts) : opts \in ConcOptions}
    \cup {Op("Set", "A", "", k, v, 0, <<>>) : k \in KVKeys, v \in {Str("9"), Str("v")}}
    \cup {Op(n, "A", "", k, NoValue, 0, <<>>) : n \in IncrOps, k \in KVKeys}

\* The counter is prepared before the first Incr is called, by calls that
\* follow one another; every caller then calls Incr once, at any time.
IncrCall(p, o) ==
    /\ IF o.name \in IncrOps
       THEN /\ \A i \in DOMAIN returned : returned[i].p # p
            /\ \A q \in Procs : op[q].name \in IncrOps \cup {"none"}
       ELSE /\ returned = <<>>
            /\ \A q \in Procs : pc[q] = "idle"
    /\ Call(p, o)

NextIncr ==
    \/ \E p \in Procs, o \in IncrCalls : IncrCall(p, o)
    \/ \E p \in Procs : PoolGet(p)
    \/ \E p \in Procs : Exec(p)
    \/ \E p \in Procs : Return(p)

SpecIncr == Init /\ [][NextIncr]_vars

(***************************************************************************)
(* SpecNX: one Manager; every caller, all at the same time, calls SetNX    *)
(* (the callers with an odd number) or SetNXWithContext (the others) once  *)
(* on the key "lock", which no one has set, with a value of its own and    *)
(* with or without an expiry, while the seconds pass in the store.         *)
(***************************************************************************)
NextNX ==
    \/ \E p \in Procs :
          \E o \in {Op("New", "A", "", "", NoValue, 0, opts) : opts \in ConcOptions}
                 \cup {Op(IF p % 2 = 1 THEN "SetNX" ELSE "SetNXWithContext",
                           "A", "", "lock", Str("v" \o Itoa(p)), t, <<>>) : t \in {0, 1}} :
             /\ \A i \in DOMAIN returned : returned[i].p # p
             /\ Call(p, o)
    \/ \E p \in Procs : PoolGet(p)
    \/ \E p \in Procs : Exec(p)
    \/ \E p \in Procs : Return(p)
    \/ Tick

SpecNX == Init /\ [][NextNX]_vars

(***************************************************************************)
(* SpecRace: one Manager; callers read a key with GetString or             *)
(* GetStringWithContext while others set it, with or without an expiry, or *)
(* delete it, and while the seconds pass in the store.                     *)
(***************************************************************************)
NextRace ==
    \/ \E p \in Procs :
          \E o \in {Op("New", "A", "", "", NoValue, 0, opts) : opts \in KVOptions}
                 \cup {Op("Set", "A", "", k, Str("v"), t, <<>>) : k \in KVKeys, t \in {0, 1}}
                 \cup {Op(n, "A", "", k, NoValue, 0, <<>>) :
                          n \in GetStringOps \cup {"Del"}, k \in KVKeys} : Call(p, o)
    \/ \E p \in Procs : PoolGet(p)
    \/ \E p \in Procs : Exec(p)
    \/ \E p \in Procs : Return(p)
    \/ Tick

SpecRace == Init /\ [][NextRace]_vars

(***************************************************************************)
(* SpecIdle: callers of one Manager run Ping concurrently while time       *)
(* passes for the connections that lie idle in its pool, under the default *)
(* idle timeout and under none.                                            *)
(***************************************************************************)
NextIdle ==
    \/ \E p \in Procs :
          \E o \in {Op("New", "A", "", "", NoValue, 0, opts) :
                      opts \in {<<WithAddress(Addr)>>, <<WithAddress(Addr), WithIdleTimeout(0)>>}}
                 \cup {Op("Ping", "A", "", "", NoValue, 0, <<>>)} : Call(p, o)
    \/ \E p \in Procs : PoolGet(p)
    \/ \E p \in Procs : Exec(p)
    \/ \E p \in Procs : Return(p)
    \/ \E d \in {DefaultIdleTimeout - 1, DefaultIdleTimeout, DefaultIdleTimeout + 1} : Elapse(d)

SpecIdle == Init /\ [][NextIdle]_vars

(***************************************************************************)
(* SpecCtx: WithContext operations of one Manager, called concurrently,    *)
(* whose contexts may be cancelled at any time, against a store that may   *)
(* never answer.  A caller that can go on by itself does: it takes a       *)
(* connection that is free, it returns from a context it watches and finds *)
(* done, it runs its deferred Close and returns.  Nothing makes the store  *)
(* answer a command.                                                       *)
(***************************************************************************)
CtxCalls ==
    {Op("New", "A", "", "", NoValue, 0, opts) : opts \in ConcOptions}
    \cup {Op("Set", "A", "", k, Str("v"), 0, <<>>) : k \in KVKeys}
    \cup {Op("DoWithContext", "A", "GET", k, NoValue, 0, <<>>) : k \in KVKeys}
    \cup {Op(n, "A", "", k, NoValue, 0, <<>>) :
            n \in {"ExistsWithContext", "GetWithContext"}, k \in KVKeys}

NextCtx ==
    \/ \E p \in Procs, o \in CtxCalls : Call(p, o)
    \/ \E p \in Procs : PoolGet(p)
    \/ \E p \in Procs : Exec(p)
    \/ \E p \in Procs : Return(p)
    \/ \E p \in Procs : CtxDone(p)
    \/ \E p \in Procs : Cancelled(p)

SpecCtx ==
    /\ Init
    /\ [][NextCtx]_vars
    /\ \A p \in Procs :
          WF_vars(PoolGet(p)) /\ WF_vars(Cancelled(p)) /\ WF_vars(Return(p))

(***************************************************************************)
(* SpecWait: callers of a Manager whose pool leases one connection at a    *)
(* time, with and without a context, against a store that may never        *)
(* answer.  The fairness is that of SpecCtx: a caller takes a connection    *)
(* that stays free, returns from a context it watches and finds done, runs *)
(* its deferred Close and returns.                                         *)
(***************************************************************************)
NextWait ==
    \/ \E p \in Procs :
          \E o \in {Op("New", "A", "", "", NoValue, 0, <<WithAddress(Addr), WithMaxActive(1)>>),
                    Op("Ping", "A", "", "", NoValue, 0, <<>>),
                    Op("ExistsWithContext", "A", "", "k", NoValue, 0, <<>>),
                    Op("DoWithContext", "A", "GET", "k", NoValue, 0, <<>>)} : Call(p, o)
    \/ \E p \in Procs : PoolGet(p)
    \/ \E p \in Procs : Exec(p)
    \/ \E p \in Procs : Return(p)
    \/ \E p \in Procs : CtxDone(p)
    \/ \E p \in Procs : Cancelled(p)

SpecWait ==
    /\ Init
    /\ [][NextWait]_vars
    /\ \A p \in Procs :
          WF_vars(PoolGet(p)) /\ WF_vars(Cancelled(p)) /\ WF_vars(Return(p))

(***************************************************************************)
(* SpecOpt: New called with the lists of at most two options, over every   *)
(* option constructor, and Ping on the Manager it built.                   *)
(***************************************************************************)
OptionChoices ==
    {WithAddress(Addr), WithAddress(BadAddr), WithNetwork("unix"), WithPassword("secret"),
     WithPrefix("a"), WithPrefix(""), WithMaxActive(1), WithMaxActive(0), WithDB(1),
     WithMaxIdle(0), WithIdleTimeout(60)}

OptionLists ==
    {<<>>} \cup {<<f>> : f \in OptionChoices}
    \cup {<<f, g>> : f \in OptionChoices, g \in OptionChoices}

OptCalls ==
    {Op("New", "A", "", "", NoValue, 0, opts) : opts \in OptionLists}
    \cup {Op("Ping", "A", "", "", NoValue, 0, <<>>)}

NextOpt ==
    \/ \E p \in Procs, o \in OptCalls : SeqCall(p, o)
    \/ \E p \in Procs : PoolGet(p)
    \/ \E p \in Procs : Exec(p)
    \/ \E p \in Procs : Return(p)

SpecOpt == Init /\ [][NextOpt]_vars

(***************************************************************************)
(* Claims checked under Spec.                                              *)
(***************************************************************************)
AllIdle == \A p \in Procs : pc[p] = "idle"
Returned(name) == ret.p # 0 /\ ret.op.name = name
TransportErrs == {"dial", "io"}

NoSessions == \A p \in Procs : sess[p].id = 0

\* C1 as stated: every operation that acquired a connection has released it
\* exactly once when it returns, on the success path and on every error path.
C1_EveryOperationReleases ==
    ret.p # 0 => (ret.acq \in {0, 1} /\ ret.rel = ret.acq)

\* C1, amended: every operation other than a successful SubscribeWithContext or
\* PSubscribeWithContext has released the connection it acquired exactly once
\* when it returns (after a command error, a JSON marshal error, a failed dial:
\* nothing acquired, nothing released); a successful SubscribeWithContext or
\* PSubscribeWithContext returns with its connection leased to the session, and
\* closing the session releases it; while no such session is open and no
\* operation is running, no connection is leased.
C1_ReleasedOnEveryPath ==
    /\ (ret.p # 0 /\ ret.op.name # "SessClose")
          => /\ ret.acq \in {0, 1}
             /\ ret.rel = IF /\ ret.op.name \in {"SubscribeWithContext", "PSubscribeWithContext"}
                             /\ ret.err = "nil"
                          THEN 0 ELSE ret.acq
    /\ (AllIdle /\ NoSessions) => \A m \in Mgrs : pool[m].leased = {}
    /\ \A m \in Mgrs :
          Cardinality(pool[m].leased)
             <= Cardinality({p \in Procs : pc[p] \in {"cmd", "cmd2", "close"}})
                + Cardinality({p \in Procs : sess[p].id # 0})

\* A JSON operation has returned its marshal error, with its connection released.
C1_Witness ==
    /\ Returned("SetJSONWithContext")
    /\ ret.err = "json"
    /\ ret.acq = 1
    /\ ret.rel = 1
    /\ pool["A"].leased = {}

\* C4: New passes exactly one PING to its connection before it returns, returns
\* an error exactly when that PING failed, and leaves no connection leased.
C4_NewPingsOnce ==
    Returned("New") =>
        /\ ret.cmds = <<"PING">>
        /\ (ret.err # "nil") <=> (ret.cerr # "nil")
        /\ pool[ret.op.m].leased = {}
        /\ mgr[ret.op.m].st = IF ret.cerr = "nil" THEN "ready" ELSE "failed"

\* New has returned the error of a PING that failed on a dialled connection.
C4_Witness ==
    /\ Returned("New")
    /\ ret.acq = 1
    /\ ret.cerr = "io"
    /\ ret.err = "io"

(***************************************************************************)
(* Claims checked under SpecConc.                                          *)
(***************************************************************************)
\* Those that can use connection i of Manager m: the callers whose running
\* operation has it, and the callers whose session's handle still has it.
Users(m, i) ==
    {p \in Procs : op[p].m = m /\ op[p].name # "none"
                   /\ conn[p].st \in {"ok", "broken"} /\ conn[p].id = i}
Sessions(m, i) == {p \in Procs : sess[p].open /\ sess[p].m = m /\ sess[p].id = i}

\* C2: with callers running operations concurrently, a connection of the pool
\* has at most one user between its acquire and its release: one running
\* operation or one session; it is leased for as long, and never idle meanwhile.
C2_ExclusiveUse ==
    \A m \in Mgrs : \A i \in ConnIds :
        /\ Cardinality(Users(m, i)) + Cardinality(Sessions(m, i)) <= 1
        /\ (Users(m, i) \cup Sessions(m, i)) # {}
              => (i \in pool[m].leased /\ i \notin Range(pool[m].idle))

\* Two callers are inside operations at the same time, each on its own
\* connection, both leased from the pool.
C2_Witness ==
    \E p, q \in Procs :
        /\ p # q
        /\ pc[p] = "cmd" /\ pc[q] = "cmd"
        /\ conn[p].st = "ok" /\ conn[q].st = "ok"
        /\ conn[p].id # conn[q].id
        /\ pool["A"].leased = {conn[p].id, conn[q].id}

\* C3 as stated: the number of leased connections is at most the configured
\* max active value, whatever integer was configured.
C3_LeasedAtMostMaxActive ==
    \A m \in Mgrs :
        mgr[m].st # "none" => Cardinality(pool[m].leased) <= mgr[m].MaxActive

\* C3, amended: the number of leased connections is at most the configured max
\* active value whenever that value is positive (the default 100 or the value
\* given to WithMaxActive); a value of 0 or less sets no limit.
C3_LeasedAtMostPositiveMaxActive ==
    \A m \in Mgrs :
        (mgr[m].st # "none" /\ mgr[m].MaxActive > 0)
            => Cardinality(pool[m].leased) <= mgr[m].MaxActive

\* With max active 1, one connection is leased and another caller waits in Get.
C3_Witness ==
    /\ mgr["A"].MaxActive = 1
    /\ Cardinality(pool["A"].leased) = 1
    /\ \E p \in Procs : pc[p] = "get" /\ ~CanAcquire("A")

(***************************************************************************)
(* Claims checked under SpecPrefix.                                        *)
(***************************************************************************)
\* What Get(k) and Exists(k) on Manager m return when the store holds st: the
\* operation's commands run one after the other on st.
GetOn(m, k, st) ==
    LET o == Op("Get", m, "", k, NoValue, 0, <<>>)
        first == Continue(o, "cmd", StoreReply(st, CmdOf(o, "cmd", NoLoc)), NoLoc)
        second == Continue(o, "cmd2", StoreReply(st, CmdOf(o, "cmd2", NoLoc)), NoLoc)
    IN  IF first.pc = "close" THEN <<first.s, first.err>> ELSE <<second.s, second.err>>

ExistsOn(m, k, st) ==
    LET o == Op("Exists", m, "", k, NoValue, 0, <<>>)
        only == Continue(o, "cmd", StoreReply(st, CmdOf(o, "cmd", NoLoc)), NoLoc)
    IN  <<only.b, only.err>>

DifferentPrefixes(a, b) ==
    /\ mgr[a].st = "ready"
    /\ mgr[b].st = "ready"
    /\ mgr[a].Prefix # mgr[b].Prefix

\* C5: for Managers A and B with different prefixes and any logical key k, the
\* step in which the store executes a Set(k, v) or a Del(k) of A leaves what
\* Get(k) and Exists(k) return on B as it was.
C5_PrefixesIsolate ==
    [][\A a, b \in Mgrs :
          (/\ DifferentPrefixes(a, b)
           /\ sent'.p # 0
           /\ sent'.m = a
           /\ sent'.op \in {"Set", "Del"})
          => /\ GetOn(b, sent'.key, store') = GetOn(b, sent'.key, store)
             /\ ExistsOn(b, sent'.key, store') = ExistsOn(b, sent'.key, store)]_vars

\* A Set(k, v) of one Manager has been executed while another Manager with a
\* different prefix holds its own value under the same logical key k.
C5_Witness ==
    \E a, b \in Mgrs :
        /\ DifferentPrefixes(a, b)
        /\ sent.p # 0 /\ sent.m = a /\ sent.op = "Set"
        /\ lastWrite.op = "Set" /\ lastWrite.key = prefixKey(a, sent.key)
        /\ GetOn(a, sent.key, store) = <<a, "nil">>
        /\ GetOn(b, sent.key, store) = <<b, "nil">>

FullKey == prefixKey(ret.op.m, ret.op.key)
After(name) == ret.prior.op = name /\ ret.prior.key = FullKey

\* C7: Exists(k) returns false immediately after a Del(k) that succeeded,
\* whether or not k existed, and true immediately after a Set(k, v, ttl) that
\* succeeded; a Del that succeeds returns true exactly when k existed, and k
\* does not exist after it.
C7_ExistsAfterDelAndSet ==
    /\ (Returned("Exists") /\ ret.err = "nil")
          => /\ After("Del") => ~ret.b
             /\ After("Set") => ret.b
    /\ (Returned("Del") /\ ret.err = "nil")
          => /\ ret.b <=> ret.before.exists
             /\ ~ret.after.exists

\* Exists has returned false right after a Del that removed the key.
C7_Witness ==
    /\ Returned("Exists")
    /\ ret.err = "nil"
    /\ After("Del")
    /\ ret.prior.applied
    /\ ~ret.b

\* The bytes Get returns are exactly the value v: v is a string of these bytes.
ExactlyValue(bytes, v) == v.t = "string" /\ bytes = v.s

\* C8 as stated: Get(k) immediately after a Set(k, v, ttl) that succeeded returns
\* exactly v with no error, for every value v; Get of a key that does not exist
\* (never set, deleted, expired) returns an error.
C8_GetReturnsValueSet ==
    (Returned("Get") /\ ret.err \notin TransportErrs)
        => /\ After("Set") => (ret.err = "nil" /\ ExactlyValue(ret.s, ret.prior.data))
           /\ ~ret.before.exists => ret.err # "nil"

\* C9: Ttl(k) read after Set(k, v, ttl) is in [0, ttl] when ttl > 0 and is -1
\* when ttl <= 0; Ttl of a key that does not exist is -2.
C9_TtlAfterSet ==
    (Returned("Ttl") /\ ret.err = "nil")
        => /\ (After("Set") /\ ret.prior.ttl > 0) => ret.n \in 0..ret.prior.ttl
           /\ (After("Set") /\ ret.prior.ttl <= 0) => ret.n = -1
           /\ ~ret.before.exists => ret.n = -2

\* Ttl has returned less than the ttl of the Set before it: time has passed.
C9_Witness ==
    /\ Returned("Ttl")
    /\ ret.err = "nil"
    /\ After("Set")
    /\ ret.prior.ttl = MaxTtl
    /\ ret.n >= 0
    /\ ret.n < ret.prior.ttl

\* C10: SetNX(k, v, 0) returns (true, nil) for a key that does not exist and
\* stores v; a second SetNX of the same key, before expiry or deletion, returns
\* (false, nil) and leaves the first value stored; the store's nil reply is
\* never returned as an error.
C10_SetNXOnce ==
    (Returned("SetNX") /\ ret.err \notin TransportErrs)
        => /\ ret.err = "nil"
           /\ ret.op.ttl = 0 =>
                /\ ~ret.before.exists
                      => (ret.b /\ ret.after = [exists |-> TRUE, val |-> WriteArg(ret.op.val),
                                                ttl |-> -1])
                /\ (After("SetNX") /\ ret.prior.applied /\ ret.prior.ttl = 0)
                      => (~ret.b /\ ret.after.exists /\ ret.after.val = ret.prior.val)
                /\ ret.before.exists => (~ret.b /\ ret.after = ret.before)

\* A second SetNX with another value has returned (false, nil), the value of the
\* first still stored.
C10_Witness ==
    /\ Returned("SetNX")
    /\ ret.op.ttl = 0
    /\ ret.err = "nil"
    /\ ~ret.b
    /\ After("SetNX") /\ ret.prior.applied /\ ret.prior.ttl = 0
    /\ ret.prior.data # ret.op.val
    /\ ret.after.val = WriteArg(ret.prior.data)

(***************************************************************************)
(* Claims checked under SpecJSON.                                          *)
(***************************************************************************)
\* C11: GetJSON(k, &y) issued after SetJSON(k, x, 0) succeeded, with y of the
\* type of x, returns no error and leaves y equal to x; the same for
\* SetJSONWithContext and GetJSONWithContext, in any pairing.
C11_JsonRoundTrip ==
    (/\ ret.p # 0
     /\ ret.op.name \in GetJsonOps
     /\ ret.err \notin TransportErrs
     /\ ret.prior.op \in JsonOps
     /\ ret.prior.key = FullKey
     /\ ret.prior.applied
     /\ ret.prior.ttl = 0
     /\ ret.op.val.t = ret.prior.data.t)
        => /\ ret.err = "nil"
           /\ ret.y = ret.prior.data

\* GetJSONWithContext has decoded the User that SetJSONWithContext stored.
C11_Witness ==
    /\ ret.p # 0
    /\ ret.op.name = "GetJSONWithContext"
    /\ ret.prior.key = FullKey
    /\ ret.prior.applied
    /\ ret.prior.op = "SetJSONWithContext"
    /\ ret.prior.ttl = 0
    /\ ret.prior.data = User("John")
    /\ ret.y = User("John")
    /\ ret.err = "nil"

\* C12: GetJSON of a key that does not exist (never set, deleted or expired)
\* returns no error.
C12_GetJSONMissingNoError ==
    (/\ ret.p # 0
     /\ ret.op.name \in GetJsonOps
     /\ ret.err \notin TransportErrs
     /\ ~ret.before.exists)
        => ret.err = "nil"

(***************************************************************************)
(* Claims checked under SpecBatch.  A BatchDel that has returned carries   *)
(* the store as its first SCAN found it (ret.st0); callers run one after   *)
(* another, so nothing else writes while it runs.                          *)
(***************************************************************************)
\* C13: after BatchDel(p) returns success, each key written through the Manager
\* is gone if its logical name matches the glob pattern p, and is still there
\* with its value if its logical name does not match p.
C13_DeletesByLogicalName ==
    (ret.p # 0 /\ ret.op.name \in BatchOps /\ ret.err = "nil")
        => \A k \in BatchKeys :
              Has(ret.st0, mgr[ret.op.m].Prefix \o k)
                 => IF GlobMatch(ret.op.key, k)
                    THEN ~Has(store, mgr[ret.op.m].Prefix \o k)
                    ELSE /\ Has(store, mgr[ret.op.m].Prefix \o k)
                         /\ store[mgr[ret.op.m].Prefix \o k] = ret.st0[mgr[ret.op.m].Prefix \o k]

\* C13, amended: after BatchDel(p) returns success, each key of the store is
\* gone if its full name (prefix and logical name) matches the glob pattern
\* "*" prefix p "*", which it does whenever its logical name matches p, and is
\* still there with its value if its full name does not match that pattern.
C13_DeletesByFullPattern ==
    (ret.p # 0 /\ ret.op.name \in BatchOps /\ ret.err = "nil")
        => /\ \A fk \in DOMAIN ret.st0 :
                 IF GlobMatch("*" \o mgr[ret.op.m].Prefix \o ret.op.key \o "*", fk)
                 THEN ~Has(store, fk)
                 ELSE Has(store, fk) /\ store[fk] = ret.st0[fk]
           /\ \A k \in BatchKeys :
                 GlobMatch(ret.op.key, k) => ~Has(store, mgr[ret.op.m].Prefix \o k)
           /\ DOMAIN store \subseteq DOMAIN ret.st0

\* BatchDel("k") has deleted k, and k2 with it, in two batches, and has left j.
C13_Witness ==
    /\ ret.p # 0
    /\ ret.op.name \in BatchOps
    /\ ret.err = "nil"
    /\ ret.op.key = "k"
    /\ DOMAIN ret.st0 = {"a:k", "a:k2", "a:j"}
    /\ DOMAIN store = {"a:j"}
    /\ ret.cmds = <<"SCAN", "DEL", "SCAN", "DEL">>

\* C14: a BatchDel that returns success leaves no key that matches its pattern;
\* a BatchDel that finds no such key, as the second of two calls in succession
\* with the same pattern does, issues no DEL, changes nothing and returns
\* success unless a SCAN of it fails in the transport.
C14_SecondBatchDelDeletesNothing ==
    (ret.p # 0 /\ ret.op.name \in BatchOps)
        => /\ ret.err = "nil"
                 => \A fk \in DOMAIN store :
                       ~GlobMatch("*" \o mgr[ret.op.m].Prefix \o ret.op.key \o "*", fk)
           /\ (/\ ret.cmds # <<>>
               /\ \A fk \in DOMAIN ret.st0 :
                     ~GlobMatch("*" \o mgr[ret.op.m].Prefix \o ret.op.key \o "*", fk))
                 => /\ "DEL" \notin Range(ret.cmds)
                    /\ store = ret.st0
                    /\ ret.err \in {"nil", BatchErr("SCAN", "io"), BatchErr("SCAN", "dial")}

\* The last write of the store before this BatchDel was the DEL of a BatchDel
\* with the same pattern, which left no key that matches; this BatchDel has
\* scanned every slot, deleted nothing and returned success.
C14_Witness ==
    /\ ret.p # 0
    /\ ret.op.name \in BatchOps
    /\ ret.err = "nil"
    /\ ret.prior.op \in BatchOps
    /\ ret.prior.arg = ret.op.key
    /\ ret.prior.applied
    /\ Len(ret.cmds) = ScanSlots
    /\ "DEL" \notin Range(ret.cmds)
    /\ store = ret.st0
    /\ store # <<>>

\* C15: in BatchDel and BatchDelWithContext the first SCAN or DEL that fails
\* ends the loop: the operation issues no further command and returns an error
\* that names the failed command, what earlier batches deleted stays deleted,
\* and the connection is released.
C15_BatchDelAbortsOnFirstError ==
    /\ \A p \in Procs :
          op[p].name \in BatchOps
             => /\ loc[p].err # "nil" => pc[p] = "close"
                /\ (pc[p] = "close" /\ conn[p].st \in {"broken", "error"}) => loc[p].err # "nil"
    /\ (ret.p # 0 /\ ret.op.name \in BatchOps /\ ret.err # "nil")
          => /\ ret.rel = ret.acq
             /\ pool[ret.op.m].leased = {}
             /\ Range(ret.cmds) \subseteq {"SCAN", "DEL"}
             /\ ret.cmds # <<>>
                   => ret.err \in {BatchErr(ret.cmds[Len(ret.cmds)], e) : e \in TransportErrs}
             /\ ret.cmds # <<>>
                   => \A fk \in DOMAIN store : Has(ret.st0, fk) /\ store[fk] = ret.st0[fk]

\* BatchDelWithContext has deleted one batch, its next SCAN has failed: it has
\* returned the error, the batch is gone, a key that matches is still there.
C15_Witness ==
    /\ ret.p # 0
    /\ ret.op.name \in BatchOps
    /\ ret.op.name = "BatchDelWithContext"
    /\ ret.err = BatchErr("SCAN", "io")
    /\ ret.cmds = <<"SCAN", "DEL", "SCAN">>
    /\ ret.rel = 1
    /\ DOMAIN ret.st0 \ DOMAIN store # {}
    /\ \E fk \in DOMAIN store :
          GlobMatch("*" \o mgr[ret.op.m].Prefix \o ret.op.key \o "*", fk)

C18_UndecodableReplyIsAnError ==
    /\ (ret.p # 0 /\ ret.bad) => ret.err # "nil"
    /\ (/\ ret.p # 0
        /\ ret.op.name \in GetJsonOps
        /\ ret.before.exists
        /\ ~JsonUnmarshal(ret.before.val, ret.op.val).ok)
          => ret.err # "nil"

(***************************************************************************)
(* Claims checked under SpecIncr.                                          *)
(***************************************************************************)
\* C17: when every one of the N callers has called Incr once on the same key,
\* concurrently, and all have succeeded, the counter is its initial value plus
\* N and the N values returned are pairwise distinct: they are the N values
\* that follow the initial one.  The initial value is what the key held before
\* the first INCR the store executed, the one whose prior write is not an INCR.
C17_NoIncrementLost ==
    LET first == CHOOSE i \in DOMAIN returned : returned[i].prior.op \notin IncrOps
        initial == IF returned[first].before.exists
                   THEN Atoi(returned[first].before.val).n ELSE 0
    IN  (/\ Len(returned) = NumCallers
         /\ \A i \in DOMAIN returned : returned[i].err = "nil")
            => /\ store[prefixKey("A", "k")].val = Itoa(initial + NumCallers)
               /\ \A i, j \in DOMAIN returned : i # j => returned[i].n # returned[j].n
               /\ {returned[i].n : i \in DOMAIN returned}
                     = (initial + 1)..(initial + NumCallers)

\* Two callers have incremented a counter of 9 at the same time, one with Incr
\* and one with IncrWithContext: the one whose INCR ran second returned first.
C17_Witness ==
    /\ Len(returned) = NumCallers
    /\ \A i \in DOMAIN returned : returned[i].err = "nil"
    /\ \E i \in DOMAIN returned :
          /\ returned[i].prior.op = "Set"
          /\ returned[i].before.val = "9"
    /\ returned[1].n = 11
    /\ returned[2].n = 10
    /\ returned[1].op.name # returned[2].op.name
    /\ store[prefixKey("A", "k")].val = "11"

(***************************************************************************)
(* Further claims checked under SpecJSON.                                  *)
(***************************************************************************)
\* C19: Get, GetWithContext, GetString and GetStringWithContext give different
\* outcomes for a key that is absent and for a key that holds the empty
\* string: for the empty string they return it with no error, and for an
\* absent key they do not return the empty string with no error.
C19_AbsentIsNotEmpty ==
    (/\ ret.p # 0
     /\ ret.op.name \in GetOps \cup GetStringOps
     /\ ret.err \notin TransportErrs)
        => /\ (ret.before.exists /\ ret.before.val = "") => (ret.err = "nil" /\ ret.s = "")
           /\ ~ret.before.exists => ~(ret.err = "nil" /\ ret.s = "")

(***************************************************************************)
(* Claims checked under SpecCtx.                                           *)
(***************************************************************************)
\* C20: a WithContext operation whose context is done while it waits for a
\* connection or for the reply to one of its commands does not go on waiting:
\* it returns, and the connection it had acquired is released.
C20_CancelledOperationReturns ==
    \A p \in Procs :
        (/\ op[p].name \in ContextOps
         /\ loc[p].ctx = "done"
         /\ pc[p] \in {"get", "cmd", "cmd2"})
            ~> (pc[p] = "idle" /\ conn[p] = NoConn)

(***************************************************************************)
(* Further claims checked under SpecConc.                                  *)
(***************************************************************************)
\* C21 as stated: what an acquire does when max active connections are leased is
\* selected by an option: for a Manager that New has built, among the lists of
\* options New accepts some build a pool that waits as its pool does, and some
\* build a pool that does not.
C21_BothPoliciesConfigurable ==
    \A m \in Mgrs :
        mgr[m].st = "ready"
            => /\ \E opts \in OptionLists : NewManager(opts).Wait = mgr[m].Wait
               /\ \E opts \in OptionLists : NewManager(opts).Wait # mgr[m].Wait

\* C21, amended: every pool New builds waits, whatever the options: an acquire
\* that finds max active (> 0) connections leased stays queued until one is
\* released, and no acquire returns the pool-exhausted error.
C21_AcquireAlwaysQueues ==
    [][/\ \A m \in Mgrs :
             /\ mgr'[m].st # "none" => mgr'[m].Wait
             /\ (mgr[m].st = "none" /\ mgr'[m].st # "none")
                   => \A opts \in OptionLists : NewManager(opts).Wait
       /\ \A p \in Procs :
             /\ (pc[p] = "get" /\ ~CanAcquire(op[p].m)) => pc'[p] = "get"
             /\ conn'[p].st # "exhausted"
             /\ loc'[p].err # ErrPoolExhausted
       /\ ret'.err # ErrPoolExhausted]_vars

\* With max active 1, a caller waits in Get while another caller, which holds
\* the only connection, is about to release it.
C21_Witness ==
    /\ mgr["A"].Wait
    /\ mgr["A"].MaxActive = 1
    /\ \E p, q \in Procs :
          /\ pc[p] = "get"
          /\ ~CanAcquire(op[p].m)
          /\ pc[q] = "close"
          /\ conn[q].st = "ok"
          /\ pool["A"].leased = {conn[q].id}

(***************************************************************************)
(* Claims checked under SpecOpt.                                           *)
(***************************************************************************)
\* C24: the configuration New builds from a list of options starts from the
\* defaults (network tcp, max idle 30, max active 100, database 0, idle timeout
\* 30 s, no address, no password, empty prefix); each option of the list, in
\* turn, sets the one field it names to its argument (WithPrefix(p) to p
\* followed by ":") and leaves every other field as it was; the Manager and its
\* pool carry the configuration so built.
C24_OptionsOverrideDefaults ==
    \A p \in Procs :
        LET opts == IF op[p].name = "New" THEN op[p].opts ELSE ret.op.opts
            m == IF op[p].name = "New" THEN op[p].m ELSE ret.op.m
            cfg(i) == ApplyOptions(DefaultOption, SubSeq(opts, 1, i))
            arg(f) == IF f.f \in {"address", "network", "password"} THEN f.s
                      ELSE IF f.f = "prefix" THEN f.s \o ":" ELSE f.n
        IN  (op[p].name = "New" \/ (ret.p = p /\ ret.op.name = "New"))
               => /\ cfg(0) = [network |-> "tcp", address |-> "", password |-> "",
                               prefix |-> "", maxIdle |-> 30, maxActive |-> 100, db |-> 0,
                               idleTimeout |-> 30]
                  /\ \A i \in 1..Len(opts) :
                        /\ cfg(i)[opts[i].f] = arg(opts[i])
                        /\ \A fld \in DOMAIN DefaultOption \ {opts[i].f} :
                              cfg(i)[fld] = cfg(i - 1)[fld]
                  /\ mgr[m].Prefix = cfg(Len(opts)).prefix
                  /\ mgr[m].address = cfg(Len(opts)).address
                  /\ mgr[m].network = cfg(Len(opts)).network
                  /\ mgr[m].password = cfg(Len(opts)).password
                  /\ mgr[m].db = cfg(Len(opts)).db
                  /\ mgr[m].MaxIdle = cfg(Len(opts)).maxIdle
                  /\ mgr[m].MaxActive = cfg(Len(opts)).maxActive
                  /\ mgr[m].IdleTimeout = cfg(Len(opts)).idleTimeout

\* New(WithAddress(addr), WithPrefix("a")) has returned a Manager with prefix
\* "a:", that address and the default max active, max idle and idle timeout.
C24_Witness ==
    /\ Returned("New")
    /\ ret.err = "nil"
    /\ ret.op.opts = <<WithAddress(Addr), WithPrefix("a")>>
    /\ mgr["A"].st = "ready"
    /\ mgr["A"].Prefix = "a:"
    /\ mgr["A"].address = Addr
    /\ mgr["A"].MaxActive = DefaultMaxActive
    /\ mgr["A"].MaxIdle = DefaultMaxIdle
    /\ mgr["A"].IdleTimeout = DefaultIdleTimeout

(***************************************************************************)
(* Claims checked under SpecSub.                                           *)
(***************************************************************************)
\* C22: a session that Subscribe, PSubscribe, SubscribeWithContext or
\* PSubscribeWithContext returned without error has a connection, and that
\* connection stays leased to it, and is not idle in the pool, for as long as
\* the session is open; when subscribing fails no session is returned and the
\* connection is released.
C22_SessionKeepsLease ==
    /\ \A p \in Procs :
          sess[p].open
             => /\ sess[p].id # 0
                /\ sess[p].id \in pool[sess[p].m].leased
                /\ sess[p].id \notin Range(pool[sess[p].m].idle)
    /\ (ret.p # 0 /\ ret.op.name \in SubscribeOps /\ ret.err # "nil")
          => (ret.rel = ret.acq /\ ~sess[ret.p].open)

(***************************************************************************)
(* Claims checked under SpecHash.                                          *)
(***************************************************************************)
\* C23: a per-command method sends the store the command its name denotes
\* (Hset sends HSET, HExists sends HEXISTS, HDel sends HDEL), so that HExists(k, f)
\* right after an Hset(k, f', v) that succeeded returns true with no error when
\* f is f', and false when f is another field.
C23_MethodIssuesItsCommand ==
    /\ (sent.p # 0 /\ sent.op \in HashOps) => sent.cmd.name = ToUpper(sent.op)
    /\ (/\ Returned("HExists")
        /\ ret.err \notin TransportErrs
        /\ After("Hset")
        /\ ret.prior.applied)
          => (ret.err = "nil" /\ (ret.b <=> ret.op.val = ret.prior.data))

C26_DeletesOnlyOwnPrefix ==
    (ret.p # 0 /\ ret.op.name \in BatchOps)
        => \A fk \in DOMAIN ret.st0 :
              ~Has(store, fk)
                 => /\ Len(fk) >= Len(mgr[ret.op.m].Prefix)
                    /\ SubSeq(fk, 1, Len(mgr[ret.op.m].Prefix)) = mgr[ret.op.m].Prefix

(***************************************************************************)
(* Further claims checked under SpecDecode.                                *)
(***************************************************************************)
\* C27: the batch-delete loop sends its first SCAN with cursor 0 and every
\* later SCAN with the cursor it holds, which is exactly the cursor the store
\* returned to the SCAN before; it returns success only after the store has
\* returned cursor 0, with no command after that; and all its commands go
\* over the one connection it leased.
C27_LoopFollowsCursor ==
    [][\A p \in Procs :
          /\ (sent'.p = p /\ sent'.op \in BatchOps)
                => /\ conn[p].st = "ok"
                   /\ conn'[p].id = conn[p].id
                   /\ conn[p].id \in pool[sent'.m].leased
                   /\ loc[p].acq = 1
          /\ (sent'.p = p /\ sent'.op \in BatchOps /\ sent'.cmd.name = "SCAN")
                => /\ sent'.cmd.ex = loc[p].cursor
                   /\ loc[p].cmds = <<>> => sent'.cmd.ex = 0
                   /\ loc[p].cmds # <<>> => sent'.cmd.ex # 0
                   /\ loc'[p].err = "nil"
                         => Bulk(Itoa(loc'[p].cursor)) = StoreReply(store, sent'.cmd).a[1]
          /\ (ret'.p = p /\ ret'.op.name \in BatchOps /\ ret'.err = "nil")
                => /\ loc[p].cursor = 0
                   /\ loc[p].cmds # <<>>
                   /\ pc[p] = "close"]_vars

(***************************************************************************)
(* Claims checked under SpecNX.  The observer's list holds the result of   *)
(* every caller's SetNX once all have returned; the prior write of a call  *)
(* is the last thing that happened to the store before its SET.            *)
(***************************************************************************)
\* C28: when every caller has called SetNX or SetNXWithContext once on the same
\* key, which did not exist, concurrently and with any mix of expiry arguments,
\* and no call failed in the transport, exactly one call returned (true, nil),
\* every other call returned (false, nil), and the stored value is the one
\* passed by the call that returned true.
C28_ExactlyOneWins ==
    (/\ Len(returned) = NumCallers
     /\ \A i \in DOMAIN returned : returned[i].err \notin TransportErrs)
        => \E w \in DOMAIN returned :
              /\ returned[w].b /\ returned[w].err = "nil"
              /\ \A i \in DOMAIN returned \ {w} : ~returned[i].b /\ returned[i].err = "nil"
              /\ Has(store, prefixKey("A", "lock"))
                    => store[prefixKey("A", "lock")].val = returned[w].op.val.s

\* C28, amended: the same, as long as the key has not expired: when the key
\* did not expire between the SET commands of the calls, exactly one call
\* returned (true, nil), the one whose SET the store executed first, and every
\* other returned (false, nil); the store held the winner's value, with the
\* winner's expiry, after each of the SETs, and holds it still unless the key has
\* expired since.
C28_ExactlyOneWinsBeforeExpiry ==
    (/\ Len(returned) = NumCallers
     /\ \A i \in DOMAIN returned :
           returned[i].err \notin TransportErrs /\ returned[i].prior # Expiry)
        => \E w \in DOMAIN returned :
              /\ returned[w].b /\ returned[w].err = "nil"
              /\ returned[w].prior = NoWrite
              /\ \A i \in DOMAIN returned \ {w} : ~returned[i].b /\ returned[i].err = "nil"
              /\ \A i \in DOMAIN returned :
                    /\ returned[i].after.exists
                    /\ returned[i].after.val = returned[w].op.val.s
                    /\ (returned[i].after.ttl = -1) = (returned[w].op.ttl <= 0)
              /\ Has(store, prefixKey("A", "lock"))
                    => store[prefixKey("A", "lock")].val = returned[w].op.val.s

\* SetNX with an expiry and SetNXWithContext without one have run at the same
\* time: the second to return is the one that won, and its value is stored.
C28_Witness ==
    /\ Len(returned) = NumCallers
    /\ \A i \in DOMAIN returned : returned[i].err = "nil" /\ returned[i].prior # Expiry
    /\ returned[1].op.name = "SetNX" /\ returned[1].op.ttl = 1 /\ ~returned[1].b
    /\ returned[2].op.name = "SetNXWithContext" /\ returned[2].op.ttl = 0 /\ returned[2].b
    /\ Has(store, prefixKey("A", "lock"))
    /\ store[prefixKey("A", "lock")] = [val |-> returned[2].op.val.s, ttl |-> -1]

(***************************************************************************)
(* Claims checked under SpecRace.  What a returned operation found under   *)
(* its key (ret.before) is what the store held when its last command ran.  *)
(***************************************************************************)
\* C29: GetString and GetStringWithContext, when no command of theirs fails,
\* return the empty string with a nil error for a key that is absent when
\* their last command reads it: whether EXISTS found it absent, or it was there
\* for EXISTS and gone (expired or deleted) for GET.
C29_AbsentReadsEmptyNil ==
    (/\ ret.p # 0
     /\ ret.op.name \in GetStringOps
     /\ ret.err \notin TransportErrs
     /\ ~ret.before.exists)
        => ret.err = "nil" /\ ret.s = ""

(***************************************************************************)
(* Claims checked under SpecIdle.  A Get that tests connections sends      *)
(* PING; the connections it went to are the keys of the command sent.      *)
(***************************************************************************)
\* C30: a connection taken from the idle set is probed with PING before use
\* exactly when it has been idle for one minute or more; every connection
\* probed had been idle that long; a connection that fails the probe is closed,
\* not handed to the operation and not kept; and under the default idle
\* timeout of 30 s no probe is ever issued, since an idle connection older than
\* the timeout is evicted by the Get that finds it: the connections Get hands
\* out have been idle for at most 30 s.
C30_ProbeAfterOneMinuteIdle ==
    [][\A p \in Procs :
          (pc[p] = "get" /\ pc'[p] # "get")
             => LET m == op[p].m
                    idle == pool[m].idle
                    age == pool[m].age
                    probed == IF sent'.cmd.name = "PING"
                              THEN {Atoi(sent'.cmd.keys[i]).n : i \in DOMAIN sent'.cmd.keys}
                              ELSE {}
                IN  /\ \A i \in DOMAIN idle :
                          /\ idle[i] \in probed => age[i] >= ProbeThreshold
                          /\ (conn'[p].st = "ok" /\ conn'[p].id = idle[i])
                                => /\ (idle[i] \in probed) = (age[i] >= ProbeThreshold)
                                   /\ ~Stale(m, age[i])
                          /\ (idle[i] \in probed /\ ~(conn'[p].st = "ok" /\ conn'[p].id = idle[i]))
                                => /\ idle[i] \notin Range(pool'[m].idle)
                                   /\ idle[i] \notin pool'[m].leased
                                   /\ \A q \in Procs : conn'[q].id # idle[i]
                    /\ mgr[m].IdleTimeout = DefaultIdleTimeout
                          => /\ probed = {}
                             /\ \A i \in DOMAIN idle :
                                   (conn'[p].st = "ok" /\ conn'[p].id = idle[i])
                                      => age[i] <= DefaultIdleTimeout]_vars

\* Under no idle timeout Ping has found two connections idle for a minute or
\* more: the PING to the one used last failed, the PING to the other succeeded,
\* and the operation has that one; the pool has nothing idle left.
C30_Witness ==
    /\ sent.cmd.name = "PING"
    /\ Len(sent.cmd.keys) = 2
    /\ sent.p # 0
    /\ mgr["A"].IdleTimeout = 0
    /\ pc[sent.p] = "cmd"
    /\ conn[sent.p].st = "ok"
    /\ conn[sent.p].id = Atoi(sent.cmd.keys[2]).n
    /\ pool["A"] = [leased |-> {conn[sent.p].id}, idle |-> <<>>, age |-> <<>>]

====
